---------------------------- MODULE Spec2Model ----------------------------
(***************************************************************************)
(* A model of the lyric-video visualizer (components/Visualizer.tsx, kept   *)
(* as src/unnamed/part_000): the per-frame compositor `animate` with its   *)
(* particle pool, beat factor and lyric phase test, and the capture        *)
(* pipeline startRecording / stopRecording / recorder callbacks.           *)
(*                                                                         *)
(* Numbers.  JavaScript numbers are modelled in fixed point:               *)
(*   - positions and velocities in 1/PosUnit of a pixel,                   *)
(*   - a value r of Math.random() as the numerator rn of r = rn / RandDen, *)
(*   - maxLife doubled (maxLife2 = 2 * maxLife), so that the half-integer  *)
(*     values Math.random() * 100 + 100 takes are exact,                   *)
(*   - beatFactor as the numerator over BeatDen,                           *)
(*   - particleSpeed and beatSensitivity in tenths,                        *)
(*   - times in hundredths of a second,                                    *)
(*   - a progress value as an unreduced fraction [num, den].               *)
(* Fields of Particle that only its draw routine reads (angle,             *)
(* rotationSpeed, type) are not part of the state; size is kept as the     *)
(* pair [base, times] of its two factors.                                  *)
(***************************************************************************)
EXTENDS Integers, Sequences, FiniteSets, TLC

VARIABLES
    \* ---- the frame loop (animate and the effects that feed it) ----
    canvasReady,        \* canvasRef.current is set and yields a 2d context
    aspectRatio,        \* settings.aspectRatio
    canvasW, canvasH,   \* canvasRef.current.width / height, in pixels
    particles,          \* particlesRef.current
    analyser,           \* analyserRef.current (and audioContextRef, sourceRef) is set
    particleStyle,      \* settings.particleStyle
    particleCount,      \* settings.particleCount
    particleSpeed,      \* settings.particleSpeed, in tenths
    particleSize,       \* settings.particleSize, in tenths
    beatSensitivity,    \* settings.beatSensitivity, in tenths
    transitionDuration, \* settings.transitionDuration, in 1/100 s (0: unset)
    background,         \* backgroundMode and the media: [mode, video, videoReady,
                        \*   imageSrc, image, loading]; images are numbered, 0 is none
    lyrics,             \* stateRef.current.lyrics
    currentTime,        \* stateRef.current.currentTime, in 1/100 s
    frame,              \* what animate computed and drew, if the last step was a frame
    requestRef,         \* a frame callback is pending (requestRef.current is live)
    earlier,            \* the inputs and lyric calls of the first frame of the run
    kinetic,            \* the characters of the last sub-line drawLine drew in KINETIC enter
    \* ---- the capture pipeline ----
    recording,          \* the `recording` React state
    isExporting,        \* the parent's flag, set through onExportProgress
    recorders,          \* every MediaRecorder constructed so far
    mediaRecorderRef,   \* mediaRecorderRef.current: index into recorders, 0 for null
    chunksRef,          \* chunksRef.current
    recordingExtRef,    \* recordingExtRef.current
    downloads,          \* the files handed to the browser by a.click()
    audio,              \* [playing, time, taps]: the audio element and the source node's taps
    lastStart,          \* what the last call of startRecording met and did
    lastSnapshot,       \* what the last call of takeSnapshot met and did
    \* ---- the lyric studio (App) ----
    currentSyncIndex,   \* the `currentSyncIndex` React state
    showSyncOverlay,    \* the `showSyncOverlay` React state
    replaced,           \* the array `lyrics` held before the last update, as its lines read now
    lastTap,            \* what the last call of markCurrentLine met and did
    isGeneratingTheme,  \* the `isGeneratingTheme` React state
    isTranslating,      \* the `isTranslating` React state
    isTiming,           \* the `isTiming` React state
    translateArg,       \* the `lyrics` argument of the pending translateLyricsAI call
    theme,              \* the theme fields of settings: who wrote them last
    lastAi              \* what the last settled AI call returned

frameVars    == <<canvasReady, aspectRatio, canvasW, canvasH, particles, analyser,
                  particleStyle, particleCount, particleSpeed, particleSize, beatSensitivity,
                  transitionDuration, background, lyrics, currentTime, frame,
                  requestRef, earlier, kinetic>>
captureVars  == <<recording, isExporting, recorders, mediaRecorderRef, chunksRef,
                  recordingExtRef, downloads, audio, lastStart, lastSnapshot>>
syncVars     == <<currentSyncIndex, showSyncOverlay, replaced, lastTap>>
aiVars       == <<isGeneratingTheme, isTranslating, isTiming, translateArg, theme, lastAi>>
studioVars   == <<syncVars, aiVars>>
vars         == <<frameVars, captureVars, studioVars>>

-----------------------------------------------------------------------------
(* Bounds of the model.                                                    *)

\* the largest value the particleCount slider is moved to
MaxParticleCount == 1
\* recording attempts (successful or failed starts) in one run
MaxStarts == 2
\* background images uploaded in one run
MaxImages == 2
\* characters of a sub-line in the KINETIC runs
MaxChars == 6
\* settings.particleCount in the runs with more than one particle
MaxPool == 2
\* calls of takeSnapshot in one run
MaxSnapshots == 2
\* the lyric editor holds at most MaxLines rows (SAMPLE_LYRICS has three)
MaxLines == 4
\* chunks the recorder delivers within one session, before the last one
MaxChunks == 1
\* presses of the stop button within one session
MaxStopCalls == 2

-----------------------------------------------------------------------------
(* Program constants.                                                      *)

MaxLifeBase    == 100   \* maxLife = Math.random() * 100 + 100
MaxLifeSpread  == 100
CosmosLifeBase   == 200 \* COSMOS: maxLife = Math.random() * 200 + 200
CosmosLifeSpread == 200
WrapMargin     == 50    \* y < -50, y > height + 50
RemoveMargin   == 100   \* p.y < -100 || p.y > height + 100 || ...
BeatBins       == 20    \* for (let i = 0; i < 20; i++) sum += dataArray[i]
ByteMax        == 255   \* average / 255
FftSize        == 256   \* analyser.fftSize = 256
DefaultTransition == 50 \* settings.transitionDuration || 0.5

PosUnit  == 4 * 5                 \* fixed-point units per pixel
RandDen  == 2 * MaxLifeSpread     \* denominator of a Math.random() value
BeatDen  == BeatBins * ByteMax * 10  \* denominator of beatFactor
BufferLength == FftSize \div 2    \* analyser.frequencyBinCount

Styles     == {"STANDARD", "COSMOS", "OCEAN", "GEOMETRIC", "MUSICAL", "SNOW"}
Ratios     == {"16:9", "9:16", "1:1", "4:3"}

\* getResolution(ratio)
getResolution(ratio) ==
    CASE ratio = "16:9" -> [width |-> 1920, height |-> 1080]
      [] ratio = "9:16" -> [width |-> 1080, height |-> 1920]
      [] ratio = "1:1"  -> [width |-> 1080, height |-> 1080]
      [] ratio = "4:3"  -> [width |-> 1440, height |-> 1080]
      [] OTHER          -> [width |-> 1920, height |-> 1080]

-----------------------------------------------------------------------------
(* Particle.                                                               *)

\* The values Math.random() returns while one particle is constructed, as
\* numerators over RandDen: one record per constructor call.
SpawnSamples ==
    { [rx |-> 0,   ry |-> 0,   rlife |-> 0, rvx |-> 0,   rvy |-> 0,   rcolor |-> 0,
       rtype |-> 0, rsize |-> 0],
      [rx |-> 100, ry |-> 190, rlife |-> 1, rvx |-> 100, rvy |-> 100, rcolor |-> 120,
       rtype |-> 100, rsize |-> 100] }

\* The constructor calls whose velocity draws are 0.5: for the styles with a
\* centred velocity range the particle is at rest.
RestSamples == { s \in SpawnSamples : s.rvx = RandDen \div 2 /\ s.rvy = RandDen \div 2 }

\* The values Math.random() returns for the new x of a particle that wraps.
WrapRandoms == {0, 100}

\* (Math.random() - 0.5) * span, span in tenths of a pixel
Centered(rn, spanTenths) ==
    ((rn - RandDen \div 2) * spanTenths * PosUnit) \div (RandDen * 10)

\* Math.random() * span + base, span and base in tenths of a pixel
Ranged(rn, spanTenths, baseTenths) ==
    (rn * spanTenths * PosUnit) \div (RandDen * 10) + (baseTenths * PosUnit) \div 10

\* a constructor that builds the STANDARD particle of unit size whatever
\* style and sizeMultiplier it is given
NewParticleStandard(w, h, style, sizeMultiplier, s) ==
    [ x |-> (s.rx * w * PosUnit) \div RandDen,
      y |-> (s.ry * h * PosUnit) \div RandDen,
      vx |-> Centered(s.rvx, 10), vy |-> Centered(s.rvy, 10),
      style |-> "STANDARD",
      color |-> IF 2 * s.rcolor > RandDen THEN "primary" ELSE "secondary",
      size |-> [base |-> (s.rsize * 30) \div RandDen + 10, times |-> 10],
      life |-> 0,
      maxLife2 |-> (2 * s.rlife * MaxLifeSpread) \div RandDen + 2 * MaxLifeBase,
      made |-> [w |-> w, h |-> h] ]

\* new Particle(w, h, color, style, sizeMultiplier)
NewParticle(w, h, style, sizeMultiplier, s) ==
    LET vx == CASE style = "OCEAN"     -> Centered(s.rvx, 5)
                [] style = "COSMOS"    -> Centered(s.rvx, 2)
                [] style = "GEOMETRIC" -> Centered(s.rvx, 20)
                [] style = "MUSICAL"   -> Centered(s.rvx, 10)
                [] style = "SNOW"      -> Centered(s.rvx, 5)
                [] OTHER               -> Centered(s.rvx, 10)
        vy == CASE style = "OCEAN"     -> 0 - Ranged(s.rvy, 15, 2)
                [] style = "COSMOS"    -> Centered(s.rvy, 2)
                [] style = "GEOMETRIC" -> Centered(s.rvy, 20)
                [] style = "MUSICAL"   -> 0 - Ranged(s.rvy, 10, 2)
                [] style = "SNOW"      -> Ranged(s.rvy, 20, 10)
                [] OTHER               -> Centered(s.rvy, 10)
        maxLife2 == IF style = "COSMOS"
                    THEN (2 * s.rlife * CosmosLifeSpread) \div RandDen + 2 * CosmosLifeBase
                    ELSE (2 * s.rlife * MaxLifeSpread) \div RandDen + 2 * MaxLifeBase
        \* this.type = Math.floor(Math.random() * 3)
        type == (3 * s.rtype) \div RandDen
        \* the factor of sizeMultiplier in this.size, in tenths of a pixel
        base == CASE style = "OCEAN"     -> (s.rsize * 40) \div RandDen + 20
                  [] style = "COSMOS"    -> IF type = 0
                                            THEN (s.rsize * 15) \div RandDen + 5
                                            ELSE (s.rsize * 40) \div RandDen + 20
                  [] style = "GEOMETRIC" -> (s.rsize * 60) \div RandDen + 40
                  [] style = "MUSICAL"   -> (s.rsize * 100) \div RandDen + 100
                  [] OTHER               -> (s.rsize * 30) \div RandDen + 10
    IN  [ x |-> (s.rx * w * PosUnit) \div RandDen,
          y |-> (s.ry * h * PosUnit) \div RandDen,
          vx |-> vx, vy |-> vy,
          style |-> style,
          color |-> IF 2 * s.rcolor > RandDen THEN "primary" ELSE "secondary",
          size |-> [base |-> base, times |-> sizeMultiplier],
          life |-> 0,
          maxLife2 |-> maxLife2,
          made |-> [w |-> w, h |-> h] ]   \* the w and h the constructor was given

\* Math.sin(this.life * 0.05) * 0.5, rounded to the fixed-point grid
SinTable ==
    << 0, 0, 1, 1, 2, 2, 3, 3, 4, 4, 5, 5, 6, 6, 6, 7, 7, 8, 8, 8,
       8, 9, 9, 9, 9, 9, 10, 10, 10, 10, 10, 10, 10, 10, 10, 10, 10, 10, 9, 9,
       9, 9, 9, 8, 8, 8, 7, 7, 7, 6, 6, 6, 5, 5, 4, 4, 3, 3, 2, 2,
       1, 1, 0, 0, -1, -1, -2, -2, -3, -3, -4, -4, -4, -5, -5, -6, -6, -7, -7, -7,
       -8, -8, -8, -8, -9, -9, -9, -9, -10, -10, -10, -10, -10, -10, -10, -10, -10, -10, -10, -10,
       -10, -9, -9, -9, -9, -9, -8, -8, -8, -7, -7, -7, -6, -6, -6, -5, -5, -4, -4, -3,
       -3, -2, -2, -1, -1, 0, 0, 1, 1, 2, 2, 3, 3, 4, 4, 5, 5, 5, 6, 6,
       7, 7, 7, 8, 8, 8, 9, 9, 9, 9, 9, 10, 10, 10, 10, 10, 10, 10, 10, 10,
       10, 10, 10, 10, 9, 9, 9, 9, 9, 8, 8, 8, 7, 7, 7, 6, 6, 5, 5, 5,
       4, 4, 3, 3, 2, 2, 1, 1, 0, 0, -1, -1, -2, -2, -3, -3, -4, -4, -5, -5 >>

SinDrift(life) == IF life < Len(SinTable) THEN SinTable[life + 1] ELSE 0

IsWrapStyle(style) == style \in {"OCEAN", "MUSICAL", "SNOW"}

\* Expired with > for >=
ExpiredStrict(p) == 2 * p.life > p.maxLife2

\* the test that ends the life of a particle: p.life >= p.maxLife
Expired(p) == 2 * p.life >= p.maxLife2

\* p.y < -100 || p.y > height + 100 || p.x < -100 || p.x > width + 100
OutOfBounds(p, w, h) ==
    \/ p.y < 0 - RemoveMargin * PosUnit
    \/ p.y > (h + RemoveMargin) * PosUnit
    \/ p.x < 0 - RemoveMargin * PosUnit
    \/ p.x > (w + RemoveMargin) * PosUnit

\* this.x += moveX (+ drift); this.y += moveY : the position after the move
Moved(p, beat, speed) ==
    LET moveX == (p.vx * speed * beat) \div (10 * BeatDen)
        moveY == (p.vy * speed * beat) \div (10 * BeatDen)
        drift == IF p.style \in {"OCEAN", "SNOW"} THEN SinDrift(p.life) ELSE 0
    IN  [x |-> p.x + moveX + drift, y |-> p.y + moveY]

\* the tests `this.y < -50` (OCEAN, MUSICAL) and `this.y > height + 50` (SNOW)
Wraps(style, y1, h) ==
    \/ style \in {"OCEAN", "MUSICAL"} /\ y1 < 0 - WrapMargin * PosUnit
    \/ style = "SNOW" /\ y1 > (h + WrapMargin) * PosUnit

\* Update with the two `this.life = 0` lines left out
UpdateKeepsAge(p, w, h, beat, speed, wr) ==
    LET at    == Moved(p, beat, speed)
        moved == [p EXCEPT !.x = at.x, !.y = at.y, !.life = p.life + 1]
        newX  == (wr * w * PosUnit) \div RandDen
    IN  IF p.style \in {"OCEAN", "MUSICAL"}
        THEN IF Wraps(p.style, at.y, h)
             THEN [moved EXCEPT !.y = (h + WrapMargin) * PosUnit, !.x = newX]
             ELSE moved
        ELSE IF p.style = "SNOW"
        THEN IF Wraps(p.style, at.y, h)
             THEN [moved EXCEPT !.y = 0 - WrapMargin * PosUnit, !.x = newX]
             ELSE moved
        ELSE [moved EXCEPT
                !.vx = IF at.x < 0 \/ at.x > w * PosUnit THEN 0 - p.vx ELSE p.vx,
                !.vy = IF at.y < 0 \/ at.y > h * PosUnit THEN 0 - p.vy ELSE p.vy]

\* Particle.update(width, height, beatFactor, speedFactor); wr is the value
\* Math.random() returns if the particle wraps.
Update(p, w, h, beat, speed, wr) ==
    LET at    == Moved(p, beat, speed)
        moved == [p EXCEPT !.x = at.x, !.y = at.y, !.life = p.life + 1]
        newX  == (wr * w * PosUnit) \div RandDen
    IN  IF p.style \in {"OCEAN", "MUSICAL"}
        THEN IF Wraps(p.style, at.y, h)
             THEN [moved EXCEPT !.y = (h + WrapMargin) * PosUnit, !.x = newX, !.life = 0]
             ELSE moved
        ELSE IF p.style = "SNOW"
        THEN IF Wraps(p.style, at.y, h)
             THEN [moved EXCEPT !.y = 0 - WrapMargin * PosUnit, !.x = newX, !.life = 0]
             ELSE moved
        ELSE [moved EXCEPT
                !.vx = IF at.x < 0 \/ at.x > w * PosUnit THEN 0 - p.vx ELSE p.vx,
                !.vy = IF at.y < 0 \/ at.y > h * PosUnit THEN 0 - p.vy ELSE p.vy]

\* the removal test of animate, made after update and draw of p
Removes(p, w, h, setStyle) ==
    /\ Expired(p) \/ OutOfBounds(p, w, h)
    /\ \/ ~IsWrapStyle(setStyle)
       \/ Expired(p)

\* particlesRef.current.forEach((p, index) => { update; draw; splice }) : the
\* callback runs for index k while k is an index of the array as it is then,
\* so the element that a splice moves into place k is passed over.
RECURSIVE ForEachParticle(_, _, _, _, _, _, _, _, _)
ForEachParticle(arr, k, calls, w, h, beat, speed, setStyle, wr) ==
    IF k > Len(arr)
    THEN [pool |-> arr, calls |-> calls]
    ELSE LET p0  == arr[k]
             p1  == Update(p0, w, h, beat, speed, wr[k])
             rm  == Removes(p1, w, h, setStyle)
             call == [ style |-> p1.style, before |-> p0.life, life |-> p1.life,
                       maxLife2 |-> p1.maxLife2,
                       wrapped |-> Wraps(p0.style, Moved(p0, beat, speed).y, h),
                       expired |-> 2 * p1.life >= p1.maxLife2,
                       out |-> OutOfBounds(p1, w, h), removed |-> rm ]
             arr1 == IF rm
                     THEN SubSeq(arr, 1, k - 1) \o SubSeq(arr, k + 1, Len(arr))
                     ELSE [arr EXCEPT ![k] = p1]
         IN  ForEachParticle(arr1, k + 1, Append(calls, call), w, h, beat, speed, setStyle, wr)

-----------------------------------------------------------------------------
(* The analyser.                                                           *)

\* What getByteFrequencyData can write into dataArray: dataArray[i - 1] of the
\* named sample, for i in 1..BufferLength.
Bin(name, i) ==
    CASE name = "silence" -> 0
      [] name = "bass"    -> IF 2 * i <= BeatBins THEN ByteMax ELSE 0
      [] OTHER            -> IF i > BeatBins THEN ByteMax ELSE 0

FreqSamples == {"silence", "bass", "treble"}

\* let sum = 0; for (let i = 0; i < 20; i++) sum += dataArray[i];
RECURSIVE SumBins(_, _)
SumBins(data, n) == IF n = 0 THEN 0 ELSE SumBins(data, n - 1) + Bin(data, n)

\* BeatFactor with the loop running from i = 1 to i = 20
BeatFactorShiftedBins(hasAnalyser, data, sens) ==
    IF hasAnalyser
    THEN BeatDen + (SumBins(data, BeatBins + 1) - Bin(data, 1)) * sens
    ELSE BeatDen

\* beatFactor, as a numerator over BeatDen:
\*   1 + (sum / 20 / 255) * settings.beatSensitivity   with a sampler, else 1.0
BeatFactor(hasAnalyser, data, sens) ==
    IF hasAnalyser
    THEN BeatDen + SumBins(data, BeatBins) * sens
    ELSE BeatDen

-----------------------------------------------------------------------------
(* Lyric lines.                                                            *)

\* LinePhase with <= for < in the test of the exit window
LinePhaseInclusiveExit(line, t, td) ==
    LET timeSinceStart == t - line.startTime
    IN  IF t >= line.startTime /\ t < line.endTime
        THEN IF timeSinceStart < td
             THEN [phase |-> "enter", num |-> timeSinceStart, den |-> td]
             ELSE [phase |-> "active", num |-> 1, den |-> 1]
        ELSE IF t >= line.endTime /\ t <= line.endTime + td
        THEN [phase |-> "exit", num |-> t - line.endTime, den |-> td]
        ELSE [phase |-> "hidden", num |-> 0, den |-> 1]

\* LinePhase with a transition state kept between frames: a line drawn in its
\* enter phase by the preceding frame is drawn active by this one
LinePhaseSticky(line, t, td) ==
    LET timeSinceStart == t - line.startTime
    IN  IF t >= line.startTime /\ t < line.endTime
        THEN IF /\ timeSinceStart < td
                /\ ~ \E i \in DOMAIN frame.lines : frame.lines[i].phase = "enter"
             THEN [phase |-> "enter", num |-> timeSinceStart, den |-> td]
             ELSE [phase |-> "active", num |-> 1, den |-> 1]
        ELSE IF t >= line.endTime /\ t < line.endTime + td
        THEN [phase |-> "exit", num |-> t - line.endTime, den |-> td]
        ELSE [phase |-> "hidden", num |-> 0, den |-> 1]

\* const transitionDuration = settings.transitionDuration || 0.5
EffectiveTransition(td) == IF td = 0 THEN DefaultTransition ELSE td

\* The body of lyrics.forEach in animate: the drawLine call made for a line,
\* or "hidden" when neither branch is taken.
LinePhase(line, t, td) ==
    LET timeSinceStart == t - line.startTime
    IN  IF t >= line.startTime /\ t < line.endTime
        THEN IF timeSinceStart < td
             THEN [phase |-> "enter", num |-> timeSinceStart, den |-> td]
             ELSE [phase |-> "active", num |-> 1, den |-> 1]
        ELSE IF t >= line.endTime /\ t < line.endTime + td
        THEN [phase |-> "exit", num |-> t - line.endTime, den |-> td]
        ELSE [phase |-> "hidden", num |-> 0, den |-> 1]

\* lyrics.forEach(...): the drawLine calls of one frame, in order
IsDrawn(entry) == entry.phase # "hidden"

DrawLines(ls, t, td) ==
    SelectSeq([k \in 1..Len(ls) |->
                  LET ph == LinePhase(ls[k], t, td)
                  IN  [line |-> k, phase |-> ph.phase, num |-> ph.num, den |-> ph.den]],
              IsDrawn)

-----------------------------------------------------------------------------
(* drawLine, KINETIC enter: the characters of one sub-line.                *)

\* progress is a multiple of 1 / ProgressDen
ProgressDen == 5 * 10

\* The body of chars.forEach for character idx (from 0) of n at progress
\* a / b, always drawing the character
KineticCharAlwaysDrawn(idx, n, a, b) ==
    LET pnum == 10 * n * a - 8 * idx * b
        pden == 3 * n * b
    IN  IF pnum <= 0 THEN [idx |-> idx, drawn |-> TRUE, num |-> 0, den |-> 1]
        ELSE IF pnum >= pden THEN [idx |-> idx, drawn |-> TRUE, num |-> 1, den |-> 1]
        ELSE [idx |-> idx, drawn |-> TRUE, num |-> pnum, den |-> pden]

\* The body of chars.forEach for character idx (from 0) of n at progress
\* a / b: startP = (idx / n) * 0.8, endP = startP + 0.3,
\* p = (progress - startP) / (endP - startP) = pnum / pden, clampedP is p
\* clamped to 0..1, and the character is drawn, scaled by
\* easeOutBack(clampedP), if clampedP > 0
KineticChar(idx, n, a, b) ==
    LET pnum == 10 * n * a - 8 * idx * b
        pden == 3 * n * b
    IN  IF pnum <= 0 THEN [idx |-> idx, drawn |-> FALSE, num |-> 0, den |-> 1]
        ELSE IF pnum >= pden THEN [idx |-> idx, drawn |-> TRUE, num |-> 1, den |-> 1]
        ELSE [idx |-> idx, drawn |-> TRUE, num |-> pnum, den |-> pden]

\* no sub-line has been drawn
NoKinetic == [n |-> 0, num |-> 0, den |-> 1, chars |-> << >>]

-----------------------------------------------------------------------------
(* animate: one frame.                                                     *)

\* the branch of the background selection that is taken
BackgroundDrawn(bg) ==
    IF bg.mode = "VIDEO" /\ bg.video /\ bg.videoReady THEN "video"
    ELSE IF bg.mode = "IMAGE" /\ bg.image # 0 THEN "image"
    ELSE "color"

\* FrameOps with the audio bars drawn before the particles
FrameOpsBarsFirst(bgKind, nParticles, nBars, nLines) ==
    LET nBg == IF bgKind = "color" THEN 1 ELSE 2
        a   == 1 + nBg
        b   == a + nBars
        c   == b + nParticles
        d   == c + nLines
    IN  [i \in 1..(d + 1) |->
            IF i = 1 THEN "clear"
            ELSE IF i <= a THEN "background"
            ELSE IF i <= b THEN "bar"
            ELSE IF i <= c THEN "particle"
            ELSE IF i <= d THEN "line"
            ELSE "requestFrame"]

\* no playback time
NoTime == 0 - 1

\* nothing noted yet: no frame has run under a specification that notes frames
NoEarlier ==
    [ set |-> FALSE, lyrics |-> << >>, time |-> 0, td |-> 0, lines |-> << >>,
      prev |-> NoTime, cur |-> NoTime ]

\* The drawing calls of one frame in the order animate makes them: clearRect,
\* the background (drawCover makes two calls, the flat fill one), one draw per
\* particle the forEach visits, one fillRect per bar, one drawLine per line
\* that is not hidden, and the request for the next frame.
FrameOps(bgKind, nParticles, nBars, nLines) ==
    LET nBg == IF bgKind = "color" THEN 1 ELSE 2
        a   == 1 + nBg
        b   == a + nParticles
        c   == b + nBars
        d   == c + nLines
    IN  [i \in 1..(d + 1) |->
            IF i = 1 THEN "clear"
            ELSE IF i <= a THEN "background"
            ELSE IF i <= b THEN "particle"
            ELSE IF i <= c THEN "bar"
            ELSE IF i <= d THEN "line"
            ELSE "requestFrame"]

NoFrame ==
    [ beat |-> BeatDen, polls |-> << >>, spawned |-> FALSE, born |-> << >>,
      pooled |-> 0, calls |-> << >>,
      bg |-> "none", ops |-> << >>, lines |-> << >> ]

\* animate().  s: the random values of a constructor call; wr: the random value
\* for each wrapping particle; d1, d2: what the two polls of the analyser read.
Animate(s, wr, d1, d2) ==
    /\ requestRef
    /\ canvasReady
    /\ LET beat    == BeatFactor(analyser, d1, beatSensitivity)
           spawn   == Len(particles) < particleCount
           pool0   == IF spawn
                      THEN Append(particles, NewParticle(canvasW, canvasH, particleStyle,
                                                         particleSize, s))
                      ELSE particles
           loop    == ForEachParticle(pool0, 1, << >>, canvasW, canvasH, beat,
                                      particleSpeed, particleStyle, wr)
           nBars   == IF analyser THEN BufferLength ELSE 0
           td      == EffectiveTransition(transitionDuration)
           lines   == DrawLines(lyrics, currentTime, td)
           bgKind  == BackgroundDrawn(background)
       IN  \E res \in {loop} :     \* the loop is run once
           /\ particles' = res.pool
           /\ frame' = [ beat    |-> beat,
                         polls   |-> IF analyser THEN << d1, d2 >> ELSE << >>,
                         spawned |-> spawn,
                         born    |-> IF spawn THEN << pool0[Len(pool0)] >> ELSE << >>,
                         pooled  |-> Len(pool0),
                         calls   |-> res.calls,
                         bg      |-> bgKind,
                         ops     |-> FrameOps(bgKind, Len(res.calls), nBars, Len(lines)),
                         lines   |-> lines ]
    /\ UNCHANGED <<canvasReady, aspectRatio, canvasW, canvasH, analyser, particleStyle,
                   particleCount, particleSpeed, particleSize, beatSensitivity, transitionDuration,
                   background, lyrics, currentTime>>
    /\ requestRef' = TRUE      \* requestRef.current = requestAnimationFrame(animate)
    /\ UNCHANGED kinetic
    /\ UNCHANGED captureVars
    /\ UNCHANGED studioVars

\* animate in the audio-reactive runs: the sampler's data changes from poll to
\* poll, and the constructor's random values are those of RestSamples
AnimateReactive ==
    /\ \E s \in RestSamples, d1 \in FreqSamples, d2 \in FreqSamples :
          Animate(s, [k \in 1..MaxParticleCount |-> 0], d1, d2)
    /\ UNCHANGED earlier

\* animate while no sampler is attached: nothing is polled
AnimateSilent ==
    /\ ~analyser
    /\ \E s \in SpawnSamples, wr \in [1..(MaxParticleCount) -> WrapRandoms] :
        Animate(s, wr, "silence", "silence")
    /\ UNCHANGED earlier

\* animate without an analyser, with the inputs and the drawLine calls of the
\* first frame, and the playback time of the last two frames, noted
AnimateNoted ==
    /\ ~analyser
    /\ \E s \in SpawnSamples, wr \in [1..(MaxParticleCount) -> WrapRandoms] :
        Animate(s, wr, "silence", "silence")
    /\ earlier' =
          IF earlier.set
          THEN [earlier EXCEPT !.prev = earlier.cur, !.cur = currentTime]
          ELSE [ set |-> TRUE, lyrics |-> lyrics, time |-> currentTime,
                 td |-> transitionDuration, lines |-> frame'.lines,
                 prev |-> NoTime, cur |-> currentTime ]

\* a change of aspectRatio that empties the pool and leaves the canvas as it is
SetAspectRatioKeepsCanvas(r) ==
    /\ canvasReady
    /\ r # aspectRatio
    /\ aspectRatio' = r
    /\ particles' = << >>
    /\ UNCHANGED <<canvasReady, canvasW, canvasH, analyser, particleStyle, particleCount,
                   particleSpeed, particleSize, beatSensitivity, transitionDuration,
                   background, lyrics, currentTime>>
    /\ frame' = NoFrame
    /\ UNCHANGED <<requestRef, earlier, kinetic>>
    /\ UNCHANGED captureVars
    /\ UNCHANGED studioVars

\* a resize that keeps the particles of the old resolution
SetAspectRatioKeepsPool(r) ==
    /\ canvasReady
    /\ r # aspectRatio
    /\ aspectRatio' = r
    /\ canvasW' = getResolution(r).width
    /\ canvasH' = getResolution(r).height
    /\ UNCHANGED <<canvasReady, particles, analyser, particleStyle, particleCount,
                   particleSpeed, particleSize, beatSensitivity, transitionDuration,
                   background, lyrics, currentTime>>
    /\ frame' = NoFrame
    /\ UNCHANGED <<requestRef, earlier, kinetic>>
    /\ UNCHANGED captureVars
    /\ UNCHANGED studioVars

\* the effect on [settings.aspectRatio]: resize()
SetAspectRatio(r) ==
    /\ canvasReady
    /\ r # aspectRatio
    /\ aspectRatio' = r
    /\ canvasW' = getResolution(r).width
    /\ canvasH' = getResolution(r).height
    /\ particles' = << >>
    /\ UNCHANGED <<canvasReady, analyser, particleStyle, particleCount, particleSpeed, particleSize,
                   beatSensitivity, transitionDuration, background, lyrics, currentTime>>
    /\ frame' = NoFrame
    /\ UNCHANGED <<requestRef, earlier, kinetic>>
    /\ UNCHANGED captureVars
    /\ UNCHANGED studioVars

\* a change of particleCount that cuts the pool down to the new target
SetParticleCountTrims(n) ==
    /\ n # particleCount
    /\ particleCount' = n
    /\ particles' = IF Len(particles) > n THEN SubSeq(particles, 1, n) ELSE particles
    /\ UNCHANGED <<canvasReady, aspectRatio, canvasW, canvasH, analyser,
                   particleStyle, particleSpeed, particleSize, beatSensitivity, transitionDuration,
                   background, lyrics, currentTime>>
    /\ frame' = NoFrame
    /\ UNCHANGED <<requestRef, earlier, kinetic>>
    /\ UNCHANGED captureVars
    /\ UNCHANGED studioVars

\* updateSettings({ particleStyle }) reaching stateRef.current
SetParticleStyle(st) ==
    /\ st # particleStyle
    /\ particleStyle' = st
    /\ UNCHANGED <<canvasReady, aspectRatio, canvasW, canvasH, particles, analyser,
                   particleCount, particleSpeed, particleSize, beatSensitivity, transitionDuration,
                   background, lyrics, currentTime>>
    /\ frame' = NoFrame
    /\ UNCHANGED <<requestRef, earlier, kinetic>>
    /\ UNCHANGED captureVars
    /\ UNCHANGED studioVars

\* updateSettings({ particleCount }) reaching stateRef.current
SetParticleCount(n) ==
    /\ n # particleCount
    /\ particleCount' = n
    /\ UNCHANGED <<canvasReady, aspectRatio, canvasW, canvasH, particles, analyser,
                   particleStyle, particleSpeed, particleSize, beatSensitivity, transitionDuration,
                   background, lyrics, currentTime>>
    /\ frame' = NoFrame
    /\ UNCHANGED <<requestRef, earlier, kinetic>>
    /\ UNCHANGED captureVars
    /\ UNCHANGED studioVars

\* updateSettings({ backgroundMode, backgroundVideo, backgroundImage }) and the
\* media's loading: the mode and which of the media are ready to be drawn
BackgroundChange(b) ==
    /\ b # background
    /\ background' = b
    /\ UNCHANGED <<canvasReady, aspectRatio, canvasW, canvasH, particles, analyser,
                   particleStyle, particleCount, particleSpeed, particleSize, beatSensitivity,
                   transitionDuration, lyrics, currentTime>>
    /\ frame' = NoFrame
    /\ UNCHANGED <<requestRef, earlier, kinetic>>
    /\ UNCHANGED captureVars
    /\ UNCHANGED studioVars

\* the frame-side variables a background step leaves alone
BackgroundStep(b) ==
    /\ background' = b
    /\ UNCHANGED <<canvasReady, aspectRatio, canvasW, canvasH, particles, analyser,
                   particleStyle, particleCount, particleSpeed, particleSize, beatSensitivity,
                   transitionDuration, lyrics, currentTime>>
    /\ frame' = NoFrame
    /\ UNCHANGED <<requestRef, earlier, kinetic>>
    /\ UNCHANGED captureVars
    /\ UNCHANGED studioVars

\* handleBgUpload with an image file: updateSettings({ backgroundImage: url,
\* backgroundMode: 'IMAGE' }), and the effect on [settings.backgroundImage],
\* which creates an Image whose onload is pending
UploadImage(id) ==
    /\ id > background.imageSrc
    /\ BackgroundStep([background EXCEPT !.mode = "IMAGE", !.imageSrc = id,
                                         !.loading = @ \cup {id}])

\* img.onload of image id: bgImageRef.current = img
ImageLoaded(id) ==
    /\ id \in background.loading
    /\ BackgroundStep([background EXCEPT !.image = id, !.loading = @ \ {id}])

\* handleBgUpload with a video file: updateSettings({ backgroundVideo: url,
\* backgroundMode: 'VIDEO' }), and the effect that sets video.src
UploadVideo ==
    /\ BackgroundStep([background EXCEPT !.mode = "VIDEO", !.video = TRUE,
                                         !.videoReady = FALSE])

\* the video element reaches readyState >= 2
VideoCanPlay ==
    /\ background.video
    /\ ~background.videoReady
    /\ BackgroundStep([background EXCEPT !.videoReady = TRUE])

\* the mode buttons: updateSettings({ backgroundMode: mode })
SetBackgroundMode(mode) ==
    /\ mode # background.mode
    /\ BackgroundStep([background EXCEPT !.mode = mode])

\* animate when the canvas or its 2d context is missing: it returns before
\* anything is drawn and before the next frame is requested
AnimateReturns ==
    /\ requestRef
    /\ ~canvasReady
    /\ requestRef' = FALSE
    /\ frame' = NoFrame
    /\ UNCHANGED <<canvasReady, aspectRatio, canvasW, canvasH, particles, analyser,
                   particleStyle, particleCount, particleSpeed, particleSize, beatSensitivity,
                   transitionDuration, background, lyrics, currentTime, earlier, kinetic>>
    /\ UNCHANGED captureVars
    /\ UNCHANGED studioVars

\* onTimeUpdate: setCurrentTime(audio.currentTime) reaching stateRef.current
TimeUpdate(t) ==
    /\ t # currentTime
    /\ currentTime' = t
    /\ UNCHANGED <<canvasReady, aspectRatio, canvasW, canvasH, particles, analyser,
                   particleStyle, particleCount, particleSpeed, particleSize, beatSensitivity,
                   transitionDuration, background, lyrics>>
    /\ frame' = NoFrame
    /\ UNCHANGED <<requestRef, earlier, kinetic>>
    /\ UNCHANGED captureVars
    /\ UNCHANGED studioVars

\* setLyrics(ls) reaching stateRef.current
SetLyrics(ls) ==
    /\ ls # lyrics
    /\ lyrics' = ls
    /\ UNCHANGED <<canvasReady, aspectRatio, canvasW, canvasH, particles, analyser,
                   particleStyle, particleCount, particleSpeed, particleSize, beatSensitivity,
                   transitionDuration, background, currentTime>>
    /\ frame' = NoFrame
    /\ UNCHANGED <<requestRef, earlier, kinetic>>
    /\ UNCHANGED captureVars
    /\ UNCHANGED studioVars

\* updateSettings({ particleSize }) reaching stateRef.current
SetParticleSize(z) ==
    /\ z # particleSize
    /\ particleSize' = z
    /\ UNCHANGED <<canvasReady, aspectRatio, canvasW, canvasH, particles, analyser,
                   particleStyle, particleCount, particleSpeed, beatSensitivity,
                   transitionDuration, background, lyrics, currentTime>>
    /\ frame' = NoFrame
    /\ UNCHANGED <<requestRef, earlier, kinetic>>
    /\ UNCHANGED captureVars
    /\ UNCHANGED studioVars

\* updateSettings({ transitionDuration }) reaching stateRef.current
SetTransitionDuration(td) ==
    /\ td # transitionDuration
    /\ transitionDuration' = td
    /\ UNCHANGED <<canvasReady, aspectRatio, canvasW, canvasH, particles, analyser,
                   particleStyle, particleCount, particleSpeed, particleSize, beatSensitivity,
                   background, lyrics, currentTime>>
    /\ frame' = NoFrame
    /\ UNCHANGED <<requestRef, earlier, kinetic>>
    /\ UNCHANGED captureVars
    /\ UNCHANGED studioVars

\* the effect on [isPlaying]: initAudio() creates the context, analyser and source
InitAudio ==
    /\ ~analyser
    /\ analyser' = TRUE
    /\ UNCHANGED <<canvasReady, aspectRatio, canvasW, canvasH, particles, particleStyle,
                   particleCount, particleSpeed, particleSize, beatSensitivity, transitionDuration,
                   background, lyrics, currentTime>>
    /\ frame' = NoFrame
    /\ UNCHANGED <<requestRef, earlier, kinetic>>
    /\ UNCHANGED captureVars
    /\ UNCHANGED studioVars

\* SAMPLE_LYRICS, in 1/100 s
SampleLyrics ==
    << [id |-> 1, startTime |-> 0,   endTime |-> 400],
       [id |-> 2, startTime |-> 410, endTime |-> 800],
       [id |-> 3, startTime |-> 810, endTime |-> 1200] >>

\* the lyric studio after mount
StudioInit ==
    /\ currentSyncIndex = 0
    /\ showSyncOverlay = FALSE
    /\ replaced = << >>
    /\ lastTap = [outcome |-> "none", now |-> 0, index |-> 0]
    /\ isGeneratingTheme = FALSE
    /\ isTranslating = FALSE
    /\ isTiming = FALSE
    /\ translateArg = << >>
    /\ theme = "initial"
    /\ lastAi = [kind |-> "none", outcome |-> "none", lines |-> << >>,
                 translated |-> FALSE, theme |-> "none"]

\* the capture pipeline before any recording
CaptureInit ==
    /\ lastSnapshot = [outcome |-> "none", width |-> 0, height |-> 0, n |-> 0]
    /\ recording = FALSE
    /\ isExporting = FALSE
    /\ recorders = << >>
    /\ mediaRecorderRef = 0
    /\ chunksRef = << >>
    /\ recordingExtRef = "webm"
    /\ downloads = << >>
    /\ audio = [playing |-> FALSE, time |-> 0, taps |-> 0]
    /\ lastStart = [ outcome |-> "none", at |-> "none", probed |-> FALSE,
                      mime |-> "", ext |-> "", recorder |-> 0, n |-> 0 ]

\* the slider positions of particleSpeed the model uses, in tenths
SpeedChoices == {10, 50}

\* the aspect ratios the particle runs switch between
RatioChoices == {"16:9", "9:16"}

-----------------------------------------------------------------------------
(* The particle pool under settings changes, with no sampler attached.     *)

InitParticles ==
    /\ canvasReady = TRUE
    /\ aspectRatio = "16:9"
    /\ canvasW = getResolution("16:9").width
    /\ canvasH = getResolution("16:9").height
    /\ particles = << >>
    /\ analyser = FALSE
    /\ particleStyle = "STANDARD"
    /\ particleCount \in 0..MaxParticleCount
    /\ particleSpeed \in SpeedChoices
    /\ particleSize = 10
    /\ beatSensitivity = 10
    /\ transitionDuration = 60
    /\ background = [mode |-> "COLOR", video |-> FALSE, videoReady |-> FALSE, imageSrc |-> 0, image |-> 0, loading |-> {}]
    /\ lyrics = SampleLyrics
    /\ currentTime = 0
    /\ frame = NoFrame
    /\ requestRef = TRUE
    /\ earlier = NoEarlier
    /\ kinetic = NoKinetic
    /\ CaptureInit
    /\ StudioInit

NextParticles ==
    \/ AnimateSilent
    \/ \E st \in Styles : SetParticleStyle(st)
    \/ \E n \in 0..MaxParticleCount : SetParticleCount(n)
    \/ \E r \in RatioChoices : SetAspectRatio(r)

SpecParticles == InitParticles /\ [][NextParticles]_vars

-----------------------------------------------------------------------------
(* The audio-reactive frame: sampler, background, particles, bars, lines.  *)

\* the values of settings.beatSensitivity ("0.0 to 2.0"), in tenths
SensChoices == {0, 10, 20}

BackgroundChoices ==
    { [mode |-> "COLOR", video |-> FALSE, videoReady |-> FALSE, imageSrc |-> 0, image |-> 0, loading |-> {}],
      [mode |-> "IMAGE", video |-> FALSE, videoReady |-> FALSE, imageSrc |-> 1, image |-> 0, loading |-> {1}],
      [mode |-> "IMAGE", video |-> FALSE, videoReady |-> FALSE, imageSrc |-> 1, image |-> 1, loading |-> {}],
      [mode |-> "VIDEO", video |-> TRUE,  videoReady |-> FALSE, imageSrc |-> 0, image |-> 0, loading |-> {}],
      [mode |-> "VIDEO", video |-> TRUE,  videoReady |-> TRUE,  imageSrc |-> 0, image |-> 0, loading |-> {}] }

InitBeat ==
    /\ canvasReady = TRUE
    /\ aspectRatio = "16:9"
    /\ canvasW = getResolution("16:9").width
    /\ canvasH = getResolution("16:9").height
    /\ particles = << >>
    /\ analyser = FALSE
    /\ particleStyle = "STANDARD"
    /\ particleCount \in 0..MaxParticleCount
    /\ particleSpeed = 10
    /\ particleSize = 10
    /\ beatSensitivity \in SensChoices
    /\ transitionDuration = 60
    /\ background \in BackgroundChoices
    /\ lyrics = SampleLyrics
    /\ currentTime = 420
    /\ frame = NoFrame
    /\ requestRef = TRUE
    /\ earlier = NoEarlier
    /\ kinetic = NoKinetic
    /\ CaptureInit
    /\ StudioInit

NextBeat ==
    \/ AnimateReactive
    \/ InitAudio
    \/ \E b \in BackgroundChoices : BackgroundChange(b)
    \/ \E n \in 0..MaxParticleCount : SetParticleCount(n)

SpecBeat == InitBeat /\ [][NextBeat]_vars

-----------------------------------------------------------------------------
(* The lyric phase test under seeks, lyric replacements and settings.      *)

\* lines, in 1/100 s: one of 4 s, one shorter than most transitions, one that
\* starts where the first ends
LineChoices ==
    { [id |-> 1, startTime |-> 1000, endTime |-> 1400],
      [id |-> 2, startTime |-> 1000, endTime |-> 1040],
      [id |-> 3, startTime |-> 1400, endTime |-> 1460] }

LyricChoices ==
    { << a >> : a \in LineChoices }
    \cup { << ab[1], ab[2] >> : ab \in { p \in LineChoices \X LineChoices : p[1] # p[2] } }

TimeChoices ==
    { 0, 999, 1000, 1001, 1025, 1039, 1040, 1049, 1050, 1051, 1200,
      1399, 1400, 1401, 1425, 1449, 1450, 1451, 1460, 1599, 1600 }

\* the values of settings.transitionDuration, in 1/100 s; 0 is "not set"
TransitionChoices == {0, 10, 50, 60, 200}

InitLyric ==
    /\ canvasReady = TRUE
    /\ aspectRatio = "16:9"
    /\ canvasW = getResolution("16:9").width
    /\ canvasH = getResolution("16:9").height
    /\ particles = << >>
    /\ analyser = FALSE
    /\ particleStyle = "STANDARD"
    /\ particleCount = 0
    /\ particleSpeed = 10
    /\ particleSize = 10
    /\ beatSensitivity = 10
    /\ transitionDuration = 60
    /\ background = [mode |-> "COLOR", video |-> FALSE, videoReady |-> FALSE, imageSrc |-> 0, image |-> 0, loading |-> {}]
    /\ lyrics \in LyricChoices
    /\ currentTime = 0
    /\ frame = NoFrame
    /\ requestRef = TRUE
    /\ earlier = NoEarlier
    /\ kinetic = NoKinetic
    /\ CaptureInit
    /\ StudioInit

NextLyric ==
    \/ AnimateSilent
    \/ \E t \in TimeChoices : TimeUpdate(t)
    \/ \E ls \in LyricChoices : SetLyrics(ls)
    \/ \E td \in TransitionChoices : SetTransitionDuration(td)

SpecLyric == InitLyric /\ [][NextLyric]_vars

-----------------------------------------------------------------------------
(* The spawn step under changes of style, size and count.                  *)

\* the values of settings.particleSize, in tenths
SizeChoices == {10, 20}

\* the styles the spawn runs switch between
SpawnStyles == {"STANDARD", "GEOMETRIC", "SNOW"}

NextSpawn ==
    \/ AnimateSilent
    \/ \E st \in SpawnStyles : SetParticleStyle(st)
    \/ \E z \in SizeChoices : SetParticleSize(z)
    \/ \E n \in 0..MaxParticleCount : SetParticleCount(n)

SpecSpawn == InitParticles /\ [][NextSpawn]_vars

-----------------------------------------------------------------------------
(* A pool of several particles, settings fixed.                            *)

\* animate without an analyser, with a wrap value for each place of the pool
AnimatePool ==
    /\ ~analyser
    /\ \E s \in SpawnSamples, wr \in [1..MaxPool -> WrapRandoms] :
        Animate(s, wr, "silence", "silence")
    /\ UNCHANGED earlier

InitPool ==
    /\ canvasReady = TRUE
    /\ aspectRatio = "16:9"
    /\ canvasW = getResolution("16:9").width
    /\ canvasH = getResolution("16:9").height
    /\ particles = << >>
    /\ analyser = FALSE
    /\ particleStyle = "STANDARD"
    /\ particleCount = MaxPool
    /\ particleSpeed = 10
    /\ particleSize = 10
    /\ beatSensitivity = 10
    /\ transitionDuration = 60
    /\ background = [mode |-> "COLOR", video |-> FALSE, videoReady |-> FALSE, imageSrc |-> 0, image |-> 0, loading |-> {}]
    /\ lyrics = SampleLyrics
    /\ currentTime = 0
    /\ frame = NoFrame
    /\ requestRef = TRUE
    /\ earlier = NoEarlier
    /\ kinetic = NoKinetic
    /\ CaptureInit
    /\ StudioInit

NextPool == AnimatePool

SpecPool == InitPool /\ [][NextPool]_vars

-----------------------------------------------------------------------------
(* The lyric studio: the operations of the App component that write lyrics *)

\* the rest of a handler of the studio: the Visualizer and the capture
\* pipeline are not touched, the next render hands new props to animate
StudioRest ==
    /\ UNCHANGED <<canvasReady, aspectRatio, canvasW, canvasH, particles, analyser,
                   particleStyle, particleCount, particleSpeed, particleSize, beatSensitivity,
                   transitionDuration, background, currentTime>>
    /\ frame' = NoFrame
    /\ UNCHANGED <<requestRef, earlier, kinetic>>
    /\ UNCHANGED <<recording, isExporting, recorders, mediaRecorderRef, chunksRef,
                   recordingExtRef, downloads, lastStart, lastSnapshot>>
    /\ UNCHANGED <<isGeneratingTheme, isTranslating, isTiming, theme, lastAi>>

\* an array that shares its line objects with the lyric list, after the
\* handler wrote into the objects of `written`: an object is known by its id
WriteThrough(held, written) ==
    [k \in DOMAIN held |->
        IF \E j \in DOMAIN written : written[j].id = held[k].id
        THEN written[CHOOSE j \in DOMAIN written : written[j].id = held[k].id]
        ELSE held[k]]

\* the rows of the lyric editor: 1..lyrics.length
Rows == 1..Len(lyrics)

\* startSyncMode (an audio source is loaded)
StartSyncMode ==
    /\ ~showSyncOverlay
    /\ currentSyncIndex' = 0
    /\ showSyncOverlay' = TRUE
    /\ audio' = [audio EXCEPT !.time = 0, !.playing = TRUE]
    /\ UNCHANGED <<lyrics, replaced, lastTap>>
    /\ UNCHANGED translateArg
    /\ StudioRest

\* markCurrentLine with audioRef.current.currentTime = now, reached from the
\* Space key and the overlay button while the sync overlay is shown.  Both
\* updaters write into the line objects of the array they copy ([...prev]), so
\* the array held before reads as the new one.  With no line at all the second
\* updater assigns to newLyrics[-1].endTime, which throws a TypeError.
MarkCurrentLine(now) ==
    /\ showSyncOverlay
    /\ lastTap.outcome # "threw"
    /\ LET n == Len(lyrics)
           marked ==
               IF currentSyncIndex < n
               THEN [k \in 1..n |->
                       IF k = currentSyncIndex + 1
                       THEN [lyrics[k] EXCEPT !.startTime = now]
                       ELSE IF k = currentSyncIndex
                       THEN [lyrics[k] EXCEPT !.endTime = now]
                       ELSE lyrics[k]]
               ELSE lyrics
       IN  IF currentSyncIndex < n - 1
           THEN /\ lyrics' = marked
                /\ currentSyncIndex' = currentSyncIndex + 1
                /\ UNCHANGED showSyncOverlay
                /\ lastTap' = [outcome |-> "ok", now |-> now, index |-> currentSyncIndex]
           ELSE IF n = 0
           THEN /\ lastTap' = [outcome |-> "threw", now |-> now, index |-> currentSyncIndex]
                /\ UNCHANGED <<lyrics, currentSyncIndex, showSyncOverlay>>
           ELSE /\ lyrics' = [marked EXCEPT ![n].endTime = now + 500]
                /\ showSyncOverlay' = FALSE
                /\ UNCHANGED currentSyncIndex
                /\ lastTap' = [outcome |-> "ok", now |-> now, index |-> currentSyncIndex]
    /\ replaced' = lyrics'
    /\ UNCHANGED audio
    /\ translateArg' = WriteThrough(translateArg, lyrics')
    /\ StudioRest

\* onBlur of the start time field of row idx, parseFloat giving val
EditStartTime(idx, val) ==
    /\ idx \in Rows
    /\ lyrics[idx].startTime # val
    /\ lyrics' = [lyrics EXCEPT ![idx].startTime = val]
    /\ replaced' = lyrics'    \* newL = [...lyrics] shares its line objects with lyrics
    /\ UNCHANGED <<audio, currentSyncIndex, showSyncOverlay, lastTap>>
    /\ translateArg' = WriteThrough(translateArg, lyrics')
    /\ StudioRest

\* onBlur of the end time field of row idx, parseFloat giving val
EditEndTime(idx, val) ==
    /\ idx \in Rows
    /\ lyrics[idx].endTime # val
    /\ lyrics' = [lyrics EXCEPT ![idx].endTime = val]
    /\ replaced' = lyrics'    \* newL = [...lyrics] shares its line objects with lyrics
    /\ UNCHANGED <<audio, currentSyncIndex, showSyncOverlay, lastTap>>
    /\ translateArg' = WriteThrough(translateArg, lyrics')
    /\ StudioRest

\* the add-line button; Date.now() as the next unused id
AddLine ==
    /\ Len(lyrics) < MaxLines
    /\ LET lastEnd == IF Len(lyrics) > 0 THEN lyrics[Len(lyrics)].endTime ELSE 0
       IN  lyrics' = Append(lyrics, [id |-> Len(lyrics) + 1, startTime |-> lastEnd,
                                     endTime |-> lastEnd + 300])
    /\ replaced' = lyrics     \* a new array with a new line: the old one is as it was
    /\ UNCHANGED <<audio, currentSyncIndex, showSyncOverlay, lastTap>>
    /\ UNCHANGED translateArg
    /\ StudioRest

\* the delete button of row idx: setLyrics(lyrics.filter((_, i) => i !== idx))
DeleteLine(idx) ==
    /\ idx \in Rows
    /\ lyrics' = [k \in 1..(Len(lyrics) - 1) |-> IF k < idx THEN lyrics[k] ELSE lyrics[k + 1]]
    /\ replaced' = lyrics     \* filter builds a new array: the old one is as it was
    /\ UNCHANGED <<audio, currentSyncIndex, showSyncOverlay, lastTap>>
    /\ UNCHANGED translateArg
    /\ StudioRest

\* the times typed into the editor and the playback times of a tap, in 1/100 s
StudioTimes == {500, 900}

InitStudio ==
    /\ canvasReady = TRUE
    /\ aspectRatio = "16:9"
    /\ canvasW = getResolution("16:9").width
    /\ canvasH = getResolution("16:9").height
    /\ particles = << >>
    /\ analyser = FALSE
    /\ particleStyle = "STANDARD"
    /\ particleCount = 0
    /\ particleSpeed = 10
    /\ particleSize = 10
    /\ beatSensitivity = 10
    /\ transitionDuration = 60
    /\ background = [mode |-> "COLOR", video |-> FALSE, videoReady |-> FALSE, imageSrc |-> 0, image |-> 0, loading |-> {}]
    /\ lyrics = SampleLyrics
    /\ currentTime = 0
    /\ frame = NoFrame
    /\ requestRef = TRUE
    /\ earlier = NoEarlier
    /\ kinetic = NoKinetic
    /\ CaptureInit
    /\ StudioInit

NextStudio ==
    \/ StartSyncMode
    \/ \E now \in StudioTimes : MarkCurrentLine(now)
    \/ \E idx \in 1..MaxLines, val \in StudioTimes : EditStartTime(idx, val)
    \/ \E idx \in 1..MaxLines, val \in StudioTimes : EditEndTime(idx, val)
    \/ AddLine

SpecStudio == InitStudio /\ [][NextStudio]_vars

\* manual sync over a list whose rows are deleted in the editor
NextSync ==
    \/ StartSyncMode
    \/ \E now \in StudioTimes : MarkCurrentLine(now)
    \/ \E idx \in 1..MaxLines : DeleteLine(idx)

SpecSync == InitStudio /\ [][NextSync]_vars

-----------------------------------------------------------------------------
(* The AI collaborator: the calls of geminiService and their callers in App *)

\* how ai.models.generateContent ends: a response with text, a response
\* without text, or an exception (also one thrown while the text is parsed)
AiOutcomes == {"ok", "empty", "fail"}

\* analyzeLyricsForTheme: the theme it resolves to; "none" is the object {}
analyzeLyricsForTheme(outcome) ==
    CASE outcome = "ok"    -> "suggested"
      [] outcome = "empty" -> "none"
      [] OTHER             -> "fallback"

\* translateLyricsAI with a failure answered by an empty sequence
translateLyricsAIEmptyOnFail(ls, outcome) ==
    IF outcome = "ok"
    THEN [lines |-> ls, translated |-> TRUE]
    ELSE IF outcome = "empty"
    THEN [lines |-> ls, translated |-> FALSE]
    ELSE [lines |-> << >>, translated |-> FALSE]

\* translateLyricsAI(lyrics): lyrics.map(line => ({...line, translation})) on a
\* response with text, the argument itself otherwise
translateLyricsAI(ls, outcome) ==
    IF outcome = "ok"
    THEN [lines |-> [k \in 1..Len(ls) |-> ls[k]], translated |-> TRUE]
    ELSE [lines |-> ls, translated |-> FALSE]

\* the lines of a timing response (text and times per line), in 1/100 s
TimingResponses ==
    { << >>,
      << [startTime |-> 0, endTime |-> 600] >>,
      << [startTime |-> 0, endTime |-> 600], [startTime |-> 600, endTime |-> 1200] >> }

\* smartTimingAI: data.lines.map((l, index) => ({ id: `line-${index}`, ... }))
\* on a response with text, [] otherwise; ids of the form line-k are 100 + k
smartTimingAI(outcome, resp) ==
    IF outcome = "ok"
    THEN [k \in 1..Len(resp) |->
            [id |-> 100 + k - 1, startTime |-> resp[k].startTime, endTime |-> resp[k].endTime]]
    ELSE << >>

\* the rest of a handler of the AI buttons
AiRest ==
    /\ UNCHANGED <<canvasReady, aspectRatio, canvasW, canvasH, particles, analyser,
                   particleStyle, particleCount, particleSpeed, particleSize, beatSensitivity,
                   transitionDuration, background, currentTime>>
    /\ frame' = NoFrame
    /\ UNCHANGED <<requestRef, earlier, kinetic>>
    /\ UNCHANGED captureVars
    /\ UNCHANGED <<currentSyncIndex, showSyncOverlay, lastTap>>

\* handleAutoTheme up to its await; the button is disabled while the flag is set
HandleAutoTheme ==
    /\ ~isGeneratingTheme
    /\ isGeneratingTheme' = TRUE
    /\ UNCHANGED <<lyrics, replaced, isTranslating, isTiming, translateArg, theme, lastAi>>
    /\ AiRest

\* analyzeLyricsForTheme settles and handleAutoTheme runs to its end
ThemeSettles(outcome) ==
    /\ isGeneratingTheme
    /\ LET got == analyzeLyricsForTheme(outcome)
       IN  /\ theme' = IF got = "none" THEN theme ELSE got    \* updateSettings({}) changes nothing
           /\ lastAi' = [kind |-> "theme", outcome |-> outcome, lines |-> << >>,
                         translated |-> FALSE, theme |-> got]
    /\ isGeneratingTheme' = FALSE
    /\ UNCHANGED <<lyrics, replaced, isTranslating, isTiming, translateArg>>
    /\ AiRest

\* handleTranslate up to its await: translateLyricsAI(lyrics) is called with
\* the lyrics of the render the handler belongs to
HandleTranslate ==
    /\ ~isTranslating
    /\ isTranslating' = TRUE
    /\ translateArg' = lyrics
    /\ UNCHANGED <<lyrics, replaced, isGeneratingTheme, isTiming, theme, lastAi>>
    /\ AiRest

\* translateLyricsAI settles and handleTranslate runs to its end
TranslateSettles(outcome) ==
    /\ isTranslating
    /\ LET got == translateLyricsAI(translateArg, outcome)
       IN  /\ lyrics' = got.lines                  \* setLyrics(translated)
           /\ lastAi' = [kind |-> "translate", outcome |-> outcome, lines |-> got.lines,
                         translated |-> got.translated, theme |-> "none"]
    /\ replaced' = lyrics
    /\ isTranslating' = FALSE
    /\ translateArg' = << >>
    /\ UNCHANGED <<isGeneratingTheme, isTiming, theme>>
    /\ AiRest

\* handleSmartTiming up to its await (an audio element is present)
HandleSmartTiming ==
    /\ ~isTiming
    /\ isTiming' = TRUE
    /\ UNCHANGED <<lyrics, replaced, isGeneratingTheme, isTranslating, translateArg, theme,
                   lastAi>>
    /\ AiRest

\* smartTimingAI settles and handleSmartTiming runs to its end
TimingSettles(outcome, resp) ==
    /\ isTiming
    /\ LET got == smartTimingAI(outcome, resp)
       IN  /\ lyrics' = IF Len(got) > 0 THEN got ELSE lyrics
           /\ lastAi' = [kind |-> "timing", outcome |-> outcome, lines |-> got,
                         translated |-> FALSE, theme |-> "none"]
    /\ replaced' = lyrics
    /\ isTiming' = FALSE
    /\ UNCHANGED <<isGeneratingTheme, isTranslating, translateArg, theme>>
    /\ AiRest

\* an AI call settles
AiSettles ==
    \/ \E o \in AiOutcomes : ThemeSettles(o)
    \/ \E o \in AiOutcomes : TranslateSettles(o)
    \/ \E o \in AiOutcomes, resp \in TimingResponses : TimingSettles(o, resp)

\* the AI buttons together with edits of the first row of the editor
NextAi ==
    \/ HandleAutoTheme
    \/ HandleTranslate
    \/ HandleSmartTiming
    \/ AiSettles
    \/ \E val \in StudioTimes : EditStartTime(1, val)

SpecAi == InitStudio /\ [][NextAi]_vars

\* the AI calls while rows are added in the editor
NextAiEdit ==
    \/ NextAi
    \/ AddLine

SpecAiEdit == InitStudio /\ [][NextAiEdit]_vars

\* every call of the service settles: its promise is resolved or rejected
SpecAiFair ==
    /\ SpecAi
    /\ WF_vars(\E o \in AiOutcomes : ThemeSettles(o))
    /\ WF_vars(\E o \in AiOutcomes : TranslateSettles(o))
    /\ WF_vars(\E o \in AiOutcomes, resp \in TimingResponses : TimingSettles(o, resp))

-----------------------------------------------------------------------------
(* drawLine on sub-lines of 1..MaxChars characters in the KINETIC enter    *)
(* animation, at every progress of the grid.                               *)

\* drawLine(line, 'enter', a / ProgressDen) with animationType KINETIC, on a
\* sub-line of n characters
DrawLineKinetic(n, a) ==
    /\ canvasReady
    /\ kinetic' = [ n |-> n, num |-> a, den |-> ProgressDen,
                    chars |-> [k \in 1..n |-> KineticChar(k - 1, n, a, ProgressDen)] ]
    /\ UNCHANGED <<canvasReady, aspectRatio, canvasW, canvasH, particles, analyser,
                   particleStyle, particleCount, particleSpeed, particleSize, beatSensitivity,
                   transitionDuration, background, lyrics, currentTime, frame, requestRef,
                   earlier>>
    /\ UNCHANGED captureVars
    /\ UNCHANGED studioVars

\* the enter phase has 0 <= progress < 1
NextKinetic == \E n \in 1..MaxChars, a \in 0..(ProgressDen - 1) : DrawLineKinetic(n, a)

SpecKinetic == InitLyric /\ [][NextKinetic]_vars

-----------------------------------------------------------------------------
(* Seeking: the same lyrics under arbitrary jumps of the playback time.    *)

SeekTimes == {0, 1025, 1200, 1425}

SeekTransitions == {0, 60}

NextSeek ==
    \/ AnimateNoted
    \/ \E t \in SeekTimes : TimeUpdate(t)
    \/ \E td \in SeekTransitions : SetTransitionDuration(td)

SpecSeek == InitLyric /\ [][NextSeek]_vars

-----------------------------------------------------------------------------
(* The frame loop under background uploads, media loading and a canvas     *)
(* whose 2d context may be missing.                                        *)

BackgroundModes == {"COLOR", "IMAGE", "VIDEO"}

InitLoop ==
    /\ canvasReady \in BOOLEAN
    /\ aspectRatio = "16:9"
    /\ canvasW = getResolution("16:9").width
    /\ canvasH = getResolution("16:9").height
    /\ particles = << >>
    /\ analyser = FALSE
    /\ particleStyle = "STANDARD"
    /\ particleCount = 0
    /\ particleSpeed = 10
    /\ particleSize = 10
    /\ beatSensitivity = 10
    /\ transitionDuration = 60
    /\ background = [mode |-> "COLOR", video |-> FALSE, videoReady |-> FALSE, imageSrc |-> 0, image |-> 0, loading |-> {}]
    /\ lyrics = SampleLyrics
    /\ currentTime = 420
    /\ frame = NoFrame
    /\ requestRef = TRUE
    /\ earlier = NoEarlier
    /\ kinetic = NoKinetic
    /\ CaptureInit
    /\ StudioInit

NextLoop ==
    \/ AnimateSilent
    \/ AnimateReturns
    \/ \E id \in 1..MaxImages : UploadImage(id)
    \/ \E id \in 1..MaxImages : ImageLoaded(id)
    \/ UploadVideo
    \/ VideoCanPlay
    \/ \E mode \in BackgroundModes : SetBackgroundMode(mode)

SpecLoop == InitLoop /\ [][NextLoop]_vars

-----------------------------------------------------------------------------
(* The capture pipeline: startRecording, stopRecording and the recorder's  *)
(* callbacks.  A mime type is a record [base, refined]: `refined` says     *)
(* that the platform has filled in codec parameters of its own; NoType is  *)
(* the empty string the recorder reports when it reports nothing.          *)

\* the `types` list of startRecording, in its order
RecTypes ==
    << [mime |-> "video/mp4",              ext |-> "mp4"],
       [mime |-> "video/webm;codecs=h264", ext |-> "webm"],
       [mime |-> "video/webm;codecs=vp9",  ext |-> "webm"],
       [mime |-> "video/webm",             ext |-> "webm"] >>

\* the fallback of startRecording when no entry is supported
FallbackType == [mime |-> "video/webm", ext |-> "webm"]

Mimes == { RecTypes[i].mime : i \in DOMAIN RecTypes }

NoType == [base |-> "", refined |-> FALSE]

\* types.find(t => MediaRecorder.isTypeSupported(t.mime)) from index i on: the
\* index of the first supported entry, 0 for undefined
RECURSIVE Find(_, _)
Find(sup, i) ==
    IF i > Len(RecTypes) THEN 0
    ELSE IF RecTypes[i].mime \in sup THEN i
    ELSE Find(sup, i + 1)

\* a find that returns the index of the last supported entry
RECURSIVE FindLast(_, _)
FindLast(sup, i) ==
    IF i > Len(RecTypes) THEN 0
    ELSE LET rest == FindLast(sup, i + 1)
         IN  IF rest # 0 THEN rest
             ELSE IF RecTypes[i].mime \in sup THEN i ELSE 0

\* a negotiation that takes the last supported entry, not the first
NegotiateLast(sup) ==
    LET supported == FindLast(sup, 1)
    IN  [ mime |-> IF supported # 0 THEN RecTypes[supported].mime ELSE FallbackType.mime,
          ext  |-> IF supported # 0 THEN RecTypes[supported].ext  ELSE FallbackType.ext ]

\* mimeType and recordingExtRef.current as startRecording computes them, given
\* the set of types for which MediaRecorder.isTypeSupported answers true
Negotiate(sup) ==
    LET supported == Find(sup, 1)
    IN  [ mime |-> IF supported # 0 THEN RecTypes[supported].mime ELSE FallbackType.mime,
          ext  |-> IF supported # 0 THEN RecTypes[supported].ext  ELSE FallbackType.ext ]

\* the calls of startRecording that can throw, in program order; "none": no
\* call throws
StartSteps ==
    << "captureStream", "createMediaStreamDestination", "connect",
       "isTypeSupported", "MediaRecorder", "start", "none" >>

StepIndex(step) == CHOOSE i \in DOMAIN StartSteps : StartSteps[i] = step

\* a startRecording that goes on after the call that throws
RunsAfterThrow(at, step) == StepIndex(at) >= StepIndex(step)

\* whether, when the call `at` throws, the statements that follow the call
\* `step` are executed: an exception leaves startRecording at once
Runs(at, step) == StepIndex(at) > StepIndex(step)

\* the bytes of the k-th chunk a recorder delivers: none, or the byte k
ChunkData(k, empty) == IF empty THEN << >> ELSE << k >>

\* new Blob(parts): the parts' bytes, one after the other
RECURSIVE BlobBytes(_)
BlobBytes(parts) ==
    IF parts = << >> THEN << >> ELSE Head(parts) \o BlobBytes(Tail(parts))

\* an ondataavailable that buffers the newest chunk first
OnDataAvailableFront(buffer, data) ==
    IF Len(data) > 0 THEN << data >> \o buffer ELSE buffer

\* recorder.ondataavailable: chunksRef.current after the handler has run
OnDataAvailable(buffer, data) ==
    IF Len(data) > 0 THEN Append(buffer, data) ELSE buffer

\* what recorder.mimeType can read as in onstop, for a recorder constructed
\* with mimeType mime: nothing, the option as given, or the option with the
\* codec parameters the platform chose
ReportedTypes(mime) ==
    { NoType, [base |-> mime, refined |-> FALSE], [base |-> mime, refined |-> TRUE] }

\* recorder.mimeType || mimeType
BlobType(reported, mime) ==
    IF reported # NoType THEN reported ELSE [base |-> mime, refined |-> FALSE]

\* the calls that can throw for a given platform: without an audio context
\* line 652 dereferences null, and the constructor rejects an unsupported type
CanThrowAt(at, sup) ==
    /\ at \in { StartSteps[i] : i \in DOMAIN StartSteps }
    /\ ~analyser => at \in {"captureStream", "createMediaStreamDestination"}
    /\ Negotiate(sup).mime \notin sup => StepIndex(at) <= StepIndex("MediaRecorder")

\* startRecording(), offered by the start button while `recording` is false.
\* sup: the types the platform supports; at: the call that throws
StartRecording(sup, at) ==
    /\ ~recording
    /\ canvasReady
    /\ lastStart.n < MaxStarts
    /\ CanThrowAt(at, sup)
    /\ LET neg      == Negotiate(sup)
           recorder == [ state |-> IF Runs(at, "start") THEN "recording" ELSE "inactive",
                         mimeType |-> neg.mime, ext |-> neg.ext,
                         started |-> Runs(at, "start"), stopQueued |-> FALSE,
                         stopCalls |-> 0,
                         delivered |-> << >>, finalized |-> 0 ]
           built    == Runs(at, "MediaRecorder")
       IN  /\ audio' = [ playing |-> IF Runs(at, "start") THEN TRUE ELSE audio.playing,
                         time    |-> IF Runs(at, "start") THEN 0 ELSE audio.time,
                         taps    |-> IF Runs(at, "connect") THEN audio.taps + 1
                                     ELSE audio.taps ]
           /\ recordingExtRef' = IF Runs(at, "isTypeSupported") THEN neg.ext
                                 ELSE recordingExtRef
           /\ recorders' = IF built THEN Append(recorders, recorder) ELSE recorders
           /\ mediaRecorderRef' = IF built THEN Len(recorders) + 1 ELSE mediaRecorderRef
           /\ recording' = Runs(at, "start")
           /\ isExporting' = IF Runs(at, "start") THEN TRUE ELSE isExporting
           /\ lastStart' = [ outcome  |-> IF at = "none" THEN "started" ELSE "threw",
                             at       |-> at,
                             probed   |-> Runs(at, "isTypeSupported"),
                             mime     |-> IF Runs(at, "isTypeSupported") THEN neg.mime ELSE "",
                             ext      |-> IF Runs(at, "isTypeSupported") THEN neg.ext ELSE "",
                             recorder |-> IF built THEN Len(recorders) + 1 ELSE 0,
                             n        |-> lastStart.n + 1 ]
    /\ UNCHANGED <<chunksRef, downloads>>
    /\ UNCHANGED lastSnapshot
    /\ UNCHANGED frameVars
    /\ UNCHANGED studioVars

\* the recorder of the running session hands over a chunk
DataAvailable(empty) ==
    /\ mediaRecorderRef # 0
    /\ recorders[mediaRecorderRef].state = "recording"
    /\ Len(recorders[mediaRecorderRef].delivered) < MaxChunks
    /\ LET data == ChunkData(Len(recorders[mediaRecorderRef].delivered) + 1, empty)
       IN  /\ chunksRef' = OnDataAvailable(chunksRef, data)
           /\ recorders' = [recorders EXCEPT ![mediaRecorderRef].delivered = Append(@, data)]
    /\ UNCHANGED <<recording, isExporting, mediaRecorderRef, recordingExtRef, downloads,
                   audio, lastStart>>
    /\ UNCHANGED lastSnapshot
    /\ UNCHANGED frameVars
    /\ UNCHANGED studioVars

\* a stopRecording that clears the recording state itself and never stops
\* the recorder
StopRecordingWithoutStop ==
    /\ recording
    /\ recording' = FALSE
    /\ isExporting' = FALSE
    /\ audio' = [audio EXCEPT !.playing = FALSE]
    /\ UNCHANGED <<recorders, mediaRecorderRef, chunksRef, recordingExtRef, downloads,
                   lastStart>>
    /\ UNCHANGED lastSnapshot
    /\ UNCHANGED frameVars
    /\ UNCHANGED studioVars

\* a stopRecording that stops the recorder and leaves playback running
StopRecordingKeepsPlaying ==
    /\ recording
    /\ mediaRecorderRef # 0 => recorders[mediaRecorderRef].stopCalls < MaxStopCalls
    /\ recorders' = IF mediaRecorderRef = 0 THEN recorders
                    ELSE IF recorders[mediaRecorderRef].state # "inactive"
                    THEN [recorders EXCEPT ![mediaRecorderRef].state = "inactive",
                                           ![mediaRecorderRef].stopQueued = TRUE,
                                           ![mediaRecorderRef].stopCalls = @ + 1]
                    ELSE [recorders EXCEPT ![mediaRecorderRef].stopCalls = @ + 1]
    /\ UNCHANGED <<recording, isExporting, mediaRecorderRef, chunksRef, recordingExtRef,
                   downloads, audio, lastStart>>
    /\ UNCHANGED lastSnapshot
    /\ UNCHANGED frameVars
    /\ UNCHANGED studioVars

\* stopRecording(), offered by the stop button while `recording` is true.
\* recorder.stop() makes the recorder inactive at once and queues the task
\* that fires dataavailable and stop; stopCalls counts the calls per recorder
StopRecording ==
    /\ recording
    /\ mediaRecorderRef # 0 => recorders[mediaRecorderRef].stopCalls < MaxStopCalls
    /\ IF mediaRecorderRef # 0 /\ recorders[mediaRecorderRef].state # "inactive"
       THEN /\ recorders' = [recorders EXCEPT ![mediaRecorderRef].state = "inactive",
                                              ![mediaRecorderRef].stopQueued = TRUE,
                                              ![mediaRecorderRef].stopCalls = @ + 1]
            /\ audio' = [audio EXCEPT !.playing = FALSE]
       ELSE /\ recorders' = IF mediaRecorderRef # 0
                            THEN [recorders EXCEPT ![mediaRecorderRef].stopCalls = @ + 1]
                            ELSE recorders
            /\ UNCHANGED audio
    /\ UNCHANGED <<recording, isExporting, mediaRecorderRef, chunksRef, recordingExtRef,
                   downloads, lastStart>>
    /\ UNCHANGED lastSnapshot
    /\ UNCHANGED frameVars
    /\ UNCHANGED studioVars

\* the platform ends the recording itself (its tracks end, or an error): the
\* recorder becomes inactive and the same task is queued
RecorderEnds ==
    /\ mediaRecorderRef # 0
    /\ recorders[mediaRecorderRef].state = "recording"
    /\ recorders' = [recorders EXCEPT ![mediaRecorderRef].state = "inactive",
                                      ![mediaRecorderRef].stopQueued = TRUE]
    /\ UNCHANGED <<recording, isExporting, mediaRecorderRef, chunksRef, recordingExtRef,
                   downloads, audio, lastStart>>
    /\ UNCHANGED lastSnapshot
    /\ UNCHANGED frameVars
    /\ UNCHANGED studioVars

\* an onstop handler that clears `recording` and leaves the notification of
\* the app out
RecorderOnStopSilent(i, empty, reported) ==
    /\ i \in DOMAIN recorders
    /\ recorders[i].stopQueued
    /\ reported \in ReportedTypes(recorders[i].mimeType)
    /\ LET data   == ChunkData(Len(recorders[i].delivered) + 1, empty)
           buffer == OnDataAvailable(chunksRef, data)
           blob   == [ bytes |-> BlobBytes(buffer),
                       type  |-> BlobType(reported, recorders[i].mimeType) ]
       IN  /\ downloads' = Append(downloads,
                                  [ session |-> i, blob |-> blob, ext |-> recordingExtRef ])
           /\ chunksRef' = << >>
           /\ recorders' = [recorders EXCEPT ![i].stopQueued = FALSE,
                                             ![i].delivered = Append(@, data),
                                             ![i].finalized = @ + 1]
    /\ recording' = FALSE
    /\ UNCHANGED <<isExporting, mediaRecorderRef, recordingExtRef, audio, lastStart>>
    /\ UNCHANGED lastSnapshot
    /\ UNCHANGED frameVars
    /\ UNCHANGED studioVars

\* the queued task of recorder i: dataavailable with the data gathered last,
\* then stop, whose handler builds the blob, empties the buffer, clicks the
\* download link and clears `recording`.  reported: recorder.mimeType
RecorderOnStop(i, empty, reported) ==
    /\ i \in DOMAIN recorders
    /\ recorders[i].stopQueued
    /\ reported \in ReportedTypes(recorders[i].mimeType)
    /\ LET data   == ChunkData(Len(recorders[i].delivered) + 1, empty)
           buffer == OnDataAvailable(chunksRef, data)
           blob   == [ bytes |-> BlobBytes(buffer),
                       type  |-> BlobType(reported, recorders[i].mimeType) ]
       IN  /\ downloads' = Append(downloads,
                                  [ session |-> i, blob |-> blob, ext |-> recordingExtRef ])
           /\ chunksRef' = << >>
           /\ recorders' = [recorders EXCEPT ![i].stopQueued = FALSE,
                                             ![i].delivered = Append(@, data),
                                             ![i].finalized = @ + 1]
    /\ recording' = FALSE
    /\ isExporting' = FALSE
    /\ UNCHANGED <<mediaRecorderRef, recordingExtRef, audio, lastStart>>
    /\ UNCHANGED lastSnapshot
    /\ UNCHANGED frameVars
    /\ UNCHANGED studioVars

InitRec ==
    /\ canvasReady = TRUE
    /\ aspectRatio = "16:9"
    /\ canvasW = getResolution("16:9").width
    /\ canvasH = getResolution("16:9").height
    /\ particles = << >>
    /\ analyser = FALSE
    /\ particleStyle = "STANDARD"
    /\ particleCount = 0
    /\ particleSpeed = 10
    /\ particleSize = 10
    /\ beatSensitivity = 10
    /\ transitionDuration = 60
    /\ background = [mode |-> "COLOR", video |-> FALSE, videoReady |-> FALSE, imageSrc |-> 0, image |-> 0, loading |-> {}]
    /\ lyrics = SampleLyrics
    /\ currentTime = 0
    /\ frame = NoFrame
    /\ requestRef = TRUE
    /\ earlier = NoEarlier
    /\ kinetic = NoKinetic
    /\ CaptureInit
    /\ StudioInit

\* the answers of MediaRecorder.isTypeSupported: the set of supported types
SupportChoices == SUBSET Mimes

\* the values recorder.mimeType is read as
ReportChoices == { NoType } \cup { [base |-> b, refined |-> r] : b \in Mimes, r \in BOOLEAN }

NextRec ==
    \/ InitAudio
    \/ \E sup \in SupportChoices, at \in { StartSteps[k] : k \in DOMAIN StartSteps } :
          StartRecording(sup, at)
    \/ \E empty \in BOOLEAN : DataAvailable(empty)
    \/ StopRecording
    \/ RecorderEnds
    \/ \E i \in 1..MaxStarts, empty \in BOOLEAN, reported \in ReportChoices :
          RecorderOnStop(i, empty, reported)

SpecRec == InitRec /\ [][NextRec]_vars

\* takeSnapshot, offered next to the record button while `recording` is
\* false.  ok: canvas.toDataURL returns; otherwise it throws (a tainted canvas)
\* and the catch block alerts.  The PNG has the pixel size of the canvas; its
\* download is noted in lastSnapshot
TakeSnapshot(ok) ==
    /\ ~recording
    /\ canvasReady
    /\ lastSnapshot.n < MaxSnapshots
    /\ lastSnapshot' = [ outcome |-> IF ok THEN "saved" ELSE "alert",
                         width   |-> IF ok THEN canvasW ELSE 0,
                         height  |-> IF ok THEN canvasH ELSE 0,
                         n       |-> lastSnapshot.n + 1 ]
    /\ UNCHANGED <<recording, isExporting, recorders, mediaRecorderRef, chunksRef,
                   recordingExtRef, downloads, audio, lastStart>>
    /\ UNCHANGED frameVars
    /\ UNCHANGED studioVars

\* stills and one plain capture session under changes of the aspect ratio
NextSnap ==
    \/ InitAudio
    \/ \E r \in Ratios : SetAspectRatio(r)
    \/ \E ok \in BOOLEAN : TakeSnapshot(ok)
    \/ StartRecording(Mimes, "none")
    \/ StopRecording
    \/ \E i \in 1..MaxStarts : RecorderOnStop(i, FALSE, NoType)

SpecSnap == InitRec /\ [][NextSnap]_vars

\* the play / pause button of the control bar, shown while no export runs and
\* the sync overlay is closed
TogglePlay ==
    /\ ~isExporting
    /\ ~showSyncOverlay
    /\ audio' = [audio EXCEPT !.playing = ~audio.playing]
    /\ UNCHANGED <<recording, isExporting, recorders, mediaRecorderRef, chunksRef,
                   recordingExtRef, downloads, lastStart>>
    /\ UNCHANGED lastSnapshot
    /\ UNCHANGED frameVars
    /\ UNCHANGED studioVars

\* playback advances to t and the interval of App copies
\* audioRef.current.currentTime into currentTime
AudioProgress(t) ==
    /\ audio.playing
    /\ t > audio.time
    /\ audio' = [audio EXCEPT !.time = t]
    /\ currentTime' = t
    /\ frame' = NoFrame
    /\ UNCHANGED <<canvasReady, aspectRatio, canvasW, canvasH, particles, analyser,
                   particleStyle, particleCount, particleSpeed, particleSize, beatSensitivity,
                   transitionDuration, background, lyrics, requestRef, earlier,
                   kinetic>>
    /\ UNCHANGED <<recording, isExporting, recorders, mediaRecorderRef, chunksRef,
                   recordingExtRef, downloads, lastStart>>
    /\ UNCHANGED lastSnapshot
    /\ UNCHANGED studioVars

\* the playback positions observed, in 1/100 s
PlayTimes == {300}

\* the capture pipeline together with the playback controls
NextPlay ==
    \/ NextRec
    \/ TogglePlay
    \/ \E t \in PlayTimes : AudioProgress(t)

SpecPlay == InitRec /\ [][NextPlay]_vars

\* the queued task of an inactivated recorder is eventually run
SpecRecFair ==
    SpecRec /\ \A i \in 1..MaxStarts :
                  WF_vars(\E empty \in BOOLEAN, reported \in ReportChoices :
                             RecorderOnStop(i, empty, reported))

-----------------------------------------------------------------------------
(* Claims about the lyric phase test (SpecLyric).                          *)

\* the last step was a frame
FrameDone == frame.bg # "none"

\* the drawLine calls the last frame made for line k
CallsFor(k) == { i \in DOMAIN frame.lines : frame.lines[i].line = k }

\* one drawLine call for line k, in the given phase, with progress n / d
DrawnOnce(k, phase, n, d) ==
    /\ Cardinality(CallsFor(k)) = 1
    /\ \A i \in CallsFor(k) :
          /\ frame.lines[i].phase = phase
          /\ frame.lines[i].num * d = n * frame.lines[i].den

\* C1: for a line with endTime - startTime >= td and any currentTime t, the
\* frame draws it in phase enter with progress (t - startTime) / td when
\* startTime <= t < startTime + td, active with progress 1 when
\* startTime + td <= t < endTime, exit with progress (t - endTime) / td when
\* endTime <= t < endTime + td, and does not draw it at any other time.
C1_PhaseWindows ==
    FrameDone =>
        \A k \in DOMAIN lyrics :
            LET s  == lyrics[k].startTime
                e  == lyrics[k].endTime
                td == IF transitionDuration = 0 THEN DefaultTransition ELSE transitionDuration
                t  == currentTime
            IN  e - s >= td =>
                  /\ (s <= t /\ t < s + td)  => DrawnOnce(k, "enter", t - s, td)
                  /\ (s + td <= t /\ t < e)  => DrawnOnce(k, "active", 1, 1)
                  /\ (e <= t /\ t < e + td)  => DrawnOnce(k, "exit", t - e, td)
                  /\ (t < s \/ t >= e + td)  => CallsFor(k) = {}

\* C1 witness: the line 10.0 .. 14.0 with td = 0.5 (here the default, the
\* setting being unset) at currentTime 10.25: drawn once, entering, progress 1/2.
C1_Witness ==
    /\ FrameDone
    /\ transitionDuration = 0
    /\ currentTime = 1025
    /\ lyrics[1].startTime = 1000 /\ lyrics[1].endTime = 1400
    /\ DrawnOnce(1, "enter", 1, 2)

-----------------------------------------------------------------------------
(* Claims about the particle pool (SpecParticles).                         *)

\* C2 (as stated): a particle whose own style is OCEAN, MUSICAL or SNOW is
\* removed only when its age >= maxAge, never for its position; a particle of
\* any other style is removed exactly when its age >= maxAge or it is more than
\* 100 units outside the canvas.
C2_RemovalFollowsOwnStyle ==
    \A i \in DOMAIN frame.calls :
        LET c == frame.calls[i]
        IN  IF IsWrapStyle(c.style)
            THEN c.removed => c.expired
            ELSE c.removed <=> (c.expired \/ c.out)

\* C3 (as stated): every update call leaves the age one above the age before it.
C3_AgeAlwaysIncrements ==
    \A i \in DOMAIN frame.calls : frame.calls[i].life = frame.calls[i].before + 1

\* C3 (amended): every update call leaves the age one above the age before
\* it, except an update that wraps the particle around (OCEAN and MUSICAL past
\* the top, SNOW past the bottom), which restarts the age at 0; only particles
\* of those three styles are ever wrapped.
C3_AgeIncrementsOrRestarts ==
    \A i \in DOMAIN frame.calls :
        LET c == frame.calls[i]
        IN  /\ c.wrapped => IsWrapStyle(c.style)
            /\ c.life = IF c.wrapped THEN 0 ELSE c.before + 1

\* C3 witness: a frame updated a particle that had aged and wrapped it.
C3_Witness ==
    \E i \in DOMAIN frame.calls :
        /\ frame.calls[i].wrapped
        /\ frame.calls[i].before > 1
        /\ frame.calls[i].life = 0

-----------------------------------------------------------------------------
(* Claims about the audio-reactive frame (SpecBeat).                       *)

\* C5: in every frame beatFactor >= 1; it is exactly 1 when no sampler is
\* attached, and with a sampler it is 1 + (mean of the first 20 magnitudes
\* / 255) * beatSensitivity.
C5_BeatFactor ==
    FrameDone =>
        /\ frame.beat >= BeatDen
        /\ ~analyser => frame.beat = BeatDen
        /\ analyser =>
             LET first20[n \in 0..BeatBins] ==
                     IF n = 0 THEN 0 ELSE first20[n - 1] + Bin(frame.polls[1], n)
             IN  \* beat / BeatDen = 1 + (sum / 20 / 255) * (beatSensitivity / 10),
                 \* both sides multiplied by BeatDen = 20 * 255 * 10
                 frame.beat = BeatBins * ByteMax * 10 + first20[BeatBins] * beatSensitivity

\* C5 witness: a frame with a sampler whose first 20 bins are partly loud and
\* whose later bins are silent, and a beat factor of 1.5 or more.
C5_Witness ==
    /\ FrameDone /\ analyser
    /\ frame.polls[1] = "bass"
    /\ beatSensitivity > 0
    /\ 2 * frame.beat >= 3 * BeatDen

Rank(tag) ==
    CASE tag = "clear" -> 0
      [] tag = "background" -> 1
      [] tag = "particle" -> 2
      [] tag = "bar" -> 3
      [] tag = "line" -> 4
      [] OTHER -> 5

\* C10: within a frame the drawing calls come in the order background, then
\* particles, then bars, then lyric lines, and the next frame is requested
\* once, after all of them.
C10_RenderOrder ==
    FrameDone =>
        /\ \A i \in 1..(Len(frame.ops) - 1) : Rank(frame.ops[i]) <= Rank(frame.ops[i + 1])
        /\ frame.ops[Len(frame.ops)] = "requestFrame"
        /\ \A i \in DOMAIN frame.ops : frame.ops[i] = "requestFrame" => i = Len(frame.ops)
        /\ \E i \in DOMAIN frame.ops : frame.ops[i] = "background"

\* C10 witness: a frame that drew a background, a particle, bars and two lines.
C10_Witness ==
    /\ FrameDone
    /\ \A t \in {"background", "particle", "bar", "line"} :
          \E i \in DOMAIN frame.ops : frame.ops[i] = t
    /\ Len(frame.lines) = 2
    /\ Len(frame.calls) >= 1

-----------------------------------------------------------------------------
(* Claims about the capture pipeline (SpecRec, SpecRecFair).               *)

\* how often the finalize/download step has run for recorder i
Finalizations(i) ==
    Cardinality({ k \in DOMAIN downloads : downloads[k].session = i })

\* recorder i was started and is no longer recording
Stopped(i) ==
    /\ i \in DOMAIN recorders
    /\ recorders[i].started
    /\ recorders[i].state = "inactive"

\* C6: every started recording session is finalized exactly once.  The
\* finalize/download step never runs twice for a session, whatever the number
\* of stop requests and of chunks arrived; while the recording state is idle
\* every started session has been finalized; and a session that has stopped
\* is eventually finalized.
C6_FinalizedExactlyOnce ==
    /\ [](\A i \in DOMAIN recorders :
            /\ Finalizations(i) <= 1
            /\ (~recording /\ recorders[i].started) => Finalizations(i) = 1)
    /\ \A i \in 1..MaxStarts : Stopped(i) ~> (Finalizations(i) = 1)

\* a session stopped by two stop requests before any chunk had arrived, and
\* finalized once
C6_Witness ==
    \E i \in DOMAIN recorders :
        /\ recorders[i].stopCalls = 2
        /\ Len(recorders[i].delivered) = 1
        /\ Finalizations(i) = 1

\* each download holds the chunks of its session in arrival order and carries
\* the session's negotiated extension
DownloadsHoldSessions ==
    \A k \in DOMAIN downloads :
        LET s == downloads[k].session
        IN  /\ s \in DOMAIN recorders
            /\ downloads[k].blob.bytes = BlobBytes(recorders[s].delivered)
            /\ downloads[k].ext = recorders[s].ext

\* after the finalize step the buffer is empty and the state idle, and the
\* buffer is empty whenever no session is recording
BufferEmptyWhenIdle ==
    /\ ~recording => chunksRef = << >>
    /\ (mediaRecorderRef # 0 /\ Finalizations(mediaRecorderRef) > 0)
          => (~recording /\ chunksRef = << >>)

\* C7 as stated: the download is the concatenation, in arrival order, of the
\* chunks delivered during its session, tagged with the negotiated type and
\* named with the negotiated extension; afterwards the buffer is empty and the
\* state idle, so the buffer is empty whenever no session is recording.
C7_DownloadTaggedNegotiated ==
    /\ DownloadsHoldSessions
    /\ BufferEmptyWhenIdle
    /\ \A k \in DOMAIN downloads :
          downloads[k].blob.type
             = [base |-> recorders[downloads[k].session].mimeType, refined |-> FALSE]

\* C7, amended: as C7, but the download is tagged with the type the recorder
\* reports (the negotiated type, possibly with codec parameters filled in by
\* the platform), and with the negotiated type only when the recorder reports
\* none.
C7_DownloadTaggedAsReported ==
    /\ DownloadsHoldSessions
    /\ BufferEmptyWhenIdle
    /\ \A k \in DOMAIN downloads :
          /\ downloads[k].blob.type # NoType
          /\ downloads[k].blob.type.base = recorders[downloads[k].session].mimeType

\* the second session of a run downloads its own two chunks, in order, under
\* a type the platform has refined
C7_Witness ==
    \E k \in DOMAIN downloads :
        /\ downloads[k].session = 2
        /\ Finalizations(1) = 1
        /\ downloads[k].blob.bytes = << 1, 2 >>
        /\ downloads[k].blob.type.refined
        /\ ~recording /\ chunksRef = << >>

\* the index of the first entry of the list that is supported, 0 if none is
LowestSupported(sup) ==
    IF \E i \in DOMAIN RecTypes : RecTypes[i].mime \in sup
    THEN CHOOSE i \in DOMAIN RecTypes :
            /\ RecTypes[i].mime \in sup
            /\ \A j \in 1..(i - 1) : RecTypes[j].mime \notin sup
    ELSE 0

\* C8: for every support predicate, a startRecording that gets past the probe
\* selects the lowest-index supported entry of [video/mp4,
\* video/webm;codecs=h264, video/webm;codecs=vp9, video/webm] and records that
\* entry's extension, and video/webm with webm if no entry is supported; the
\* recorder is constructed with the selected type.  When only webm-vp9 is
\* supported the mime is webm-vp9 and the extension webm.
C8_FirstSupportedWins ==
    [][ \A sup \in SupportChoices, at \in { StartSteps[k] : k \in DOMAIN StartSteps } :
           (StartRecording(sup, at) /\ StepIndex(at) > StepIndex("isTypeSupported"))
           => LET i    == LowestSupported(sup)
                  mime == IF i = 0 THEN "video/webm" ELSE RecTypes[i].mime
                  ext  == IF i = 0 THEN "webm" ELSE RecTypes[i].ext
              IN  /\ lastStart'.mime = mime
                  /\ recordingExtRef' = ext
                  /\ Len(recorders') > Len(recorders)
                        => recorders'[Len(recorders')].mimeType = mime
                  /\ sup = {"video/webm;codecs=vp9"}
                        => (mime = "video/webm;codecs=vp9" /\ ext = "webm")
      ]_vars

\* a recording started with webm-vp9 selected: neither mp4 nor webm-h264 was
\* supported
C8_Witness ==
    /\ lastStart.outcome = "started"
    /\ lastStart.mime = "video/webm;codecs=vp9"
    /\ recordingExtRef = "webm"
    /\ recorders[lastStart.recorder].mimeType = "video/webm;codecs=vp9"

\* C9: after a startRecording in which a call threw, the recording state is
\* idle, the export notification has not been raised, no recorder is running,
\* and no file is ever downloaded for a recorder that was not started.
C9_FailedStartAbortsCleanly ==
    /\ lastStart.outcome = "threw" =>
          /\ ~recording
          /\ ~isExporting
          /\ \A i \in DOMAIN recorders : recorders[i].state # "recording"
          /\ lastStart.recorder # 0 => Finalizations(lastStart.recorder) = 0
    /\ \A k \in DOMAIN downloads : recorders[downloads[k].session].started

\* the recorder's constructor threw in the attempt that followed a finished
\* session
C9_Witness ==
    /\ lastStart.outcome = "threw"
    /\ lastStart.at = "MediaRecorder"
    /\ lastStart.n = 2
    /\ Len(downloads) = 1
    /\ ~recording /\ ~isExporting

-----------------------------------------------------------------------------
(* Claims about the frame loop and the background (SpecLoop).              *)

\* C11 (as stated): the frame loop never stops: whatever the state of the
\* background media, the pool, the analyser, the canvas and its context, and
\* the settings, every invocation of animate has requested the next frame, so
\* a frame callback is pending at all times.
C11_LoopNeverStops == requestRef

\* the source selected by the settings is ready to be drawn
SelectedSourceReady ==
    \/ background.mode = "VIDEO" /\ background.video /\ background.videoReady
    \/ /\ background.mode = "IMAGE"
       /\ background.imageSrc # 0
       /\ background.image = background.imageSrc

\* C12 (as stated): every frame draws exactly one background; it is the
\* cover-fit draw only when the selected source is ready (a decodable video in
\* VIDEO mode, the loaded selected image in IMAGE mode) and the flat fill
\* otherwise, and always the flat fill in COLOR mode.
C12_FallbackUnlessReady ==
    FrameDone =>
        /\ frame.bg \in {"video", "image", "color"}
        /\ \E i \in DOMAIN frame.ops : frame.ops[i] = "background"
        /\ frame.bg \in {"video", "image"} <=> SelectedSourceReady
        /\ background.mode = "COLOR" => frame.bg = "color"

-----------------------------------------------------------------------------
(* Claims about the lyric phases under seeking (SpecSeek).                 *)

\* this frame ran on the inputs of the first frame
SameInputs ==
    /\ FrameDone
    /\ earlier.set
    /\ earlier.lyrics = lyrics
    /\ earlier.time = currentTime
    /\ earlier.td = transitionDuration

-----------------------------------------------------------------------------
(* Claims about the lyric studio (SpecStudio).                             *)

\* C21 (as stated): every update of lyrics publishes a new sequence of new
\* line values and leaves the sequence published before it unchanged: after
\* the update the array held before still reads as it did.
C21_UpdatesReplace == [][ lyrics' # lyrics => replaced' = lyrics ]_vars

\* C15 (as stated): every line of lyrics satisfies startTime < endTime, in
\* the initial lyrics and after every operation that writes lyrics (a tap in
\* sync mode, an edit of a time field, the add-line button).
C15_LinesWellFormed ==
    \A i \in DOMAIN lyrics : lyrics[i].startTime < lyrics[i].endTime

-----------------------------------------------------------------------------
(* Claims about playback around a capture session (SpecPlay).              *)

\* this step is a startRecording that started a session
StartedStep == lastStart'.n # lastStart.n /\ lastStart'.outcome = "started"

\* this step is a stopRecording on a recorder that was recording
StoppedStep ==
    /\ mediaRecorderRef # 0
    /\ recorders[mediaRecorderRef].state = "recording"
    /\ recorders'[mediaRecorderRef].stopCalls > recorders[mediaRecorderRef].stopCalls

\* C16: a startRecording that starts a session leaves playback at position 0
\* and playing; a stopRecording on an active recording leaves playback paused.
C16_StartRestartsStopPauses ==
    [][ /\ StartedStep => audio'.time = 0 /\ audio'.playing
        /\ StoppedStep => ~audio'.playing ]_vars

\* a session started while playback was paused away from 0 has been stopped
C16_Witness ==
    /\ lastStart.outcome = "started"
    /\ currentTime = 300
    /\ audio.time = 0
    /\ ~audio.playing
    /\ mediaRecorderRef # 0
    /\ recorders[mediaRecorderRef].stopCalls = 1
    /\ recorders[mediaRecorderRef].state = "inactive"

-----------------------------------------------------------------------------
(* Claims about still images (SpecSnap).                                   *)

\* the smaller of the two sides of a resolution
ShortSide(res) == IF res.width < res.height THEN res.width ELSE res.height

\* C17: whenever takeSnapshot can run, the canvas has the resolution of the
\* aspect ratio in effect, 1080 pixels on its short side, and a saved still has
\* that size; a call of takeSnapshot, saving or alerting, leaves the recording
\* state (recording, isExporting, the recorders, the chunk buffer) as it was.
C17_SnapshotAtResolution ==
    /\ []( canvasReady /\ ~recording =>
              /\ canvasW = getResolution(aspectRatio).width
              /\ canvasH = getResolution(aspectRatio).height
              /\ ShortSide([width |-> canvasW, height |-> canvasH]) = 1080 )
    /\ [][ lastSnapshot'.n # lastSnapshot.n =>
              /\ lastSnapshot'.outcome = "saved" =>
                    /\ lastSnapshot'.width = getResolution(aspectRatio).width
                    /\ lastSnapshot'.height = getResolution(aspectRatio).height
              /\ UNCHANGED <<recording, isExporting, recorders, mediaRecorderRef,
                             chunksRef, recordingExtRef>>
         ]_vars

\* a still of 1080x1920 was saved after a change to 9:16, following a capture
\* session that has ended
C17_Witness ==
    /\ lastSnapshot.outcome = "saved"
    /\ lastSnapshot.width = 1080
    /\ lastSnapshot.height = 1920
    /\ aspectRatio = "9:16"
    /\ Len(downloads) = 1
    /\ ~recording

-----------------------------------------------------------------------------
(* Claims about the particle step with several particles (SpecPool).       *)

\* C18 (as stated): in every frame each particle that is in the pool when
\* the particle step starts is updated and drawn exactly once, so the step
\* makes as many update/draw calls as the pool has particles, also in frames
\* that remove particles.
C18_EveryParticleStepped == FrameDone => Len(frame.calls) = frame.pooled

-----------------------------------------------------------------------------
(* Claims about the spawn step (SpecSpawn).                                *)

\* C19: a frame constructs exactly one particle when the pool is below
\* particleCount as the frame starts and none otherwise; the particle it
\* constructs has the particleStyle and the particleSize of that frame, one of
\* the two palette colors, and age 0, and is in the pool for the particle step.
C19_SpawnOneWhenBelow ==
    [][ frame'.bg # "none" =>
          /\ frame'.spawned <=> Len(particles) < particleCount
          /\ Len(frame'.born) = IF Len(particles) < particleCount THEN 1 ELSE 0
          /\ frame'.pooled = Len(particles) + Len(frame'.born)
          /\ \A i \in DOMAIN frame'.born :
                /\ frame'.born[i].style = particleStyle
                /\ frame'.born[i].size.times = particleSize
                /\ frame'.born[i].color \in {"primary", "secondary"}
                /\ frame'.born[i].life = 0
      ]_vars

\* a frame has constructed a GEOMETRIC particle of double size in the primary
\* color, after the style and the size were changed
C19_Witness ==
    /\ frame.spawned
    /\ Len(frame.born) = 1
    /\ frame.born[1].style = "GEOMETRIC"
    /\ frame.born[1].size.times = 20
    /\ frame.born[1].color = "primary"
    /\ particleStyle = "GEOMETRIC"
    /\ particleSize = 20

-----------------------------------------------------------------------------
(* Claims about a failed start of a capture (SpecRec).                     *)

\* this step is a startRecording in which one of the platform calls threw
FailedStartStep == lastStart'.n # lastStart.n /\ lastStart'.outcome = "threw"

\* C20 (as stated): a startRecording that fails at any step leaves the
\* recorded file extension, the recorder reference, the chunk buffer, the
\* connections of the audio graph and the position and state of playback as
\* they were before the attempt.
C20_FailedStartChangesNothing ==
    [][ FailedStartStep =>
          UNCHANGED <<recordingExtRef, mediaRecorderRef, chunksRef, audio,
                      recording, isExporting>> ]_vars

-----------------------------------------------------------------------------
(* Claims about the AI collaborator (SpecAi, SpecAiFair).                  *)

\* the steps in which a call settles and its handler ends
ThemeDone     == isGeneratingTheme /\ ~isGeneratingTheme'
TranslateDone == isTranslating /\ ~isTranslating'
TimingDone    == isTiming /\ ~isTiming'

\* C22: a failed theme call returns the fixed default theme; a failed
\* translation call returns the sequence it was given, without translations; a
\* failed timing call returns an empty sequence and the lyrics stay as they
\* are; and each busy flag that is set is reset once the call has settled.
C22_FailuresContained ==
    /\ [][ /\ ThemeDone /\ lastAi'.outcome = "fail" =>
                 lastAi'.theme = "fallback" /\ theme' = "fallback"
           /\ TranslateDone /\ lastAi'.outcome = "fail" =>
                 lastAi'.lines = translateArg /\ ~lastAi'.translated
           /\ TimingDone /\ lastAi'.outcome = "fail" =>
                 lastAi'.lines = << >> /\ lyrics' = lyrics
         ]_vars
    /\ isGeneratingTheme ~> ~isGeneratingTheme
    /\ isTranslating ~> ~isTranslating
    /\ isTiming ~> ~isTiming

\* the theme call has failed, and later a translation call of the three
\* sample lines has failed and handed them back
C22_Witness ==
    /\ theme = "fallback"
    /\ lastAi.kind = "translate"
    /\ lastAi.outcome = "fail"
    /\ lastAi.lines = lyrics
    /\ Len(lyrics) = 3
    /\ ~isGeneratingTheme /\ ~isTranslating /\ ~isTiming

-----------------------------------------------------------------------------
(* Claims about the polls of the frequency sampler (SpecBeat).             *)

\* C23 (as stated): a frame polls the analyser exactly once when one is
\* attached and not at all otherwise, so the beat factor and the bars of a
\* frame come from one magnitude sample.
C23_PolledOncePerFrame ==
    FrameDone =>
        /\ Len(frame.polls) = (IF analyser THEN 1 ELSE 0)
        /\ \A i, j \in DOMAIN frame.polls : frame.polls[i] = frame.polls[j]

-----------------------------------------------------------------------------
(* Claims about the KINETIC enter animation (SpecKinetic).                 *)

\* progress has reached the start / the end of the window of character idx:
\* idx / n * 0.8 and idx / n * 0.8 + 0.3
AfterWindowStart(idx) == 10 * kinetic.n * kinetic.num > 8 * idx * kinetic.den
AtWindowEnd(idx) ==
    10 * kinetic.n * kinetic.num >= (8 * idx + 3 * kinetic.n) * kinetic.den

\* C24 (as stated): each character is drawn fully scaled in once progress
\* has reached the end of its window, and is drawn partway through its pop-in
\* otherwise.
C24_KineticAlwaysDrawn ==
    \A k \in DOMAIN kinetic.chars :
        LET c == kinetic.chars[k]
        IN  IF AtWindowEnd(k - 1)
            THEN c.drawn /\ c.num = c.den
            ELSE c.drawn /\ c.num < c.den

\* C24 (amended): each character is drawn fully scaled in once progress has
\* reached the end of its window, is drawn partway through its pop-in while
\* progress is inside the window, past its start, and is not drawn at all
\* while progress has not passed the start of the window.
C24_KineticWindows ==
    \A k \in DOMAIN kinetic.chars :
        LET c == kinetic.chars[k]
        IN  /\ c.idx = k - 1
            /\ AtWindowEnd(k - 1) => c.drawn /\ c.num = c.den
            /\ AfterWindowStart(k - 1) /\ ~AtWindowEnd(k - 1) =>
                  c.drawn /\ 0 < c.num /\ c.num < c.den
            /\ ~AfterWindowStart(k - 1) => ~c.drawn

\* n = 5 at progress 0.5: character 0 is fully scaled in, character 3 (window
\* [0.48, 0.78)) is partway, character 4 (window [0.64, 0.94)) is not drawn
C24_Witness ==
    /\ kinetic.n = 5
    /\ 2 * kinetic.num = kinetic.den
    /\ kinetic.chars[1].drawn /\ kinetic.chars[1].num = kinetic.chars[1].den
    /\ kinetic.chars[4].drawn /\ kinetic.chars[4].num < kinetic.chars[4].den
    /\ ~kinetic.chars[5].drawn

-----------------------------------------------------------------------------
(* Claims about the exclusiveness of a capture session (SpecRec).          *)

\* the recorders that are recording
ActiveRecorders == { i \in DOMAIN recorders : recorders[i].state = "recording" }

\* the chunks of a sequence that are not empty
IsNotEmpty(data) == Len(data) > 0

\* C25: at most one recorder is recording at any time, and it is the one
\* mediaRecorderRef designates; a recorder is constructed only while
\* `recording` is false and no recorder is recording; and the chunk buffer
\* holds the non-empty chunks of the session that is not finalized yet, in the
\* order of their delivery, and nothing else.
C25_OneSessionAtATime ==
    /\ [](/\ Cardinality(ActiveRecorders) <= 1
          /\ \A i \in ActiveRecorders : mediaRecorderRef = i /\ recording
          /\ chunksRef = IF mediaRecorderRef # 0 /\ recorders[mediaRecorderRef].finalized = 0
                         THEN SelectSeq(recorders[mediaRecorderRef].delivered, IsNotEmpty)
                         ELSE << >>)
    /\ [][ Len(recorders') > Len(recorders) => ~recording /\ ActiveRecorders = {} ]_vars

\* a second session is recording and has buffered a chunk, after the first
\* one was finalized and downloaded
C25_Witness ==
    /\ Len(recorders) = 2
    /\ ActiveRecorders = {2}
    /\ recorders[1].finalized = 1
    /\ Len(downloads) = 1
    /\ Len(chunksRef) = 1

-----------------------------------------------------------------------------
(* Claims about the pool across a change of resolution (SpecParticles).    *)

\* C13: a change of aspectRatio empties the particle pool; a frame adds at
\* most one particle, and adds one whenever the pool is below particleCount;
\* and at all times the canvas has the resolution of the aspect ratio in
\* effect and every particle of the pool was constructed against it.
C13_ResizeResetsPool ==
    /\ [](/\ canvasW = getResolution(aspectRatio).width
          /\ canvasH = getResolution(aspectRatio).height
          /\ \A i \in DOMAIN particles :
                particles[i].made = [w |-> canvasW, h |-> canvasH])
    /\ [][ /\ aspectRatio' # aspectRatio => particles' = << >>
           /\ frame'.bg # "none" =>
                 /\ Len(particles') <= Len(particles) + 1
                 /\ frame'.spawned <=> Len(particles) < particleCount
                 /\ frame'.spawned => frame'.pooled = Len(particles) + 1
         ]_vars

\* after a change to 9:16 the pool holds a particle constructed for 1080x1920
C13_Witness ==
    /\ aspectRatio = "9:16"
    /\ Len(particles) = 1
    /\ particles[1].made = [w |-> 1080, h |-> 1920]
    /\ particles[1].life > 1

\* ---------------------------------------------------------------------------
\* C26: once every pending image load has completed, the image drawn in IMAGE
\* mode is the one of the most recent backgroundImage setting; a load started
\* for an older setting never replaces the image of a newer setting.
C26_LatestImageWins ==
    (background.loading = {} /\ background.imageSrc # 0)
        => background.image = background.imageSrc

\* ---------------------------------------------------------------------------
\* a session enters RECORDING: a recorder was constructed and started
SessionEnters ==
    /\ Len(recorders') > Len(recorders)
    /\ recorders'[Len(recorders')].state = "recording"

\* a session is finalized: the onstop handler of a recorder ran
SessionFinalized ==
    \E i \in DOMAIN recorders : recorders'[i].finalized > recorders[i].finalized

\* C27: the export flag of the app always agrees with the recording state of
\* the visualizer: it becomes true exactly in the step in which a session
\* enters RECORDING and false exactly in the step that finalizes it, so the
\* play / pause control is not available at any time during a session and is
\* available again after it.
C27_ExportFlagAgrees ==
    /\ [](/\ isExporting = recording
          /\ recording => ~ENABLED TogglePlay
          /\ (~recording /\ ~showSyncOverlay) => ENABLED TogglePlay)
    /\ [][ /\ (~isExporting /\ isExporting') <=> SessionEnters
           /\ (isExporting /\ ~isExporting') <=> SessionFinalized ]_vars

\* a second session runs after the first was finalized and downloaded: the
\* flag is raised again
C27_Witness ==
    /\ isExporting /\ recording
    /\ Len(recorders) = 2
    /\ recorders[1].finalized = 1
    /\ recorders[2].state = "recording"
    /\ Len(downloads) = 1

\* ---------------------------------------------------------------------------
\* C28 (as stated): in manual sync mode, for any lyric list, an empty one
\* included, every tap completes without error.
C28_EveryTapCompletes == lastTap.outcome # "threw"

\* ---------------------------------------------------------------------------
\* C29 (as stated, for a translation request): an edit or replacement of the
\* lyrics made while the request is in flight is not lost: the sequence
\* published when the request completes has the ids and timings that were
\* current immediately before completion.
C29_EditsSurviveTranslation ==
    [][ TranslateDone =>
          /\ Len(lyrics') = Len(lyrics)
          /\ \A i \in DOMAIN lyrics :
                /\ lyrics'[i].id = lyrics[i].id
                /\ lyrics'[i].startTime = lyrics[i].startTime
                /\ lyrics'[i].endTime = lyrics[i].endTime ]_vars

\* ---------------------------------------------------------------------------
\* C30: the pool grows only in a frame, by one particle at most, and only
\* while it is smaller than the particleCount in effect in that frame, so it
\* never exceeds the largest particleCount a frame has seen since the pool was
\* emptied; a change of particleCount or particleStyle removes no particle, so
\* the pool can stay above a lowered target until its particles expire.
C30_PoolGrowsByOne ==
    /\ [][ Len(particles') > Len(particles) =>
             /\ FrameDone'
             /\ Len(particles') = Len(particles) + 1
             /\ Len(particles) < particleCount
             /\ Len(particles') <= particleCount ]_vars
    /\ [][ (particleCount' # particleCount \/ particleStyle' # particleStyle) =>
             particles' = particles ]_vars

\* a frame ran with the pool above the lowered target and kept its particle
C30_Witness ==
    /\ FrameDone
    /\ particleCount = 0
    /\ Len(particles) = 1
    /\ particles[1].life > 1

=============================================================================
